---------------------------- MODULE Spec2Model ----------------------------
(***************************************************************************)
(* A model of the swarm game (tbohlen/swarm): the game object and its      *)
(* logic loop (src/script.js), the particle systems, the time stepper and  *)
(* the collision resolution (src/unnamed/part_000), the particles          *)
(* (src/unnamed/part_001) and the flashes (src/noninteracting.js).         *)
(*                                                                         *)
(* Numbers.  The program computes with JavaScript numbers.  The model      *)
(* keeps a number as an integer count of 1/SCALE units (fixed point,       *)
(* products and quotients rounded toward zero) and keeps the three         *)
(* non-finite values of IEEE arithmetic, which the program can produce     *)
(* (a division by a zero length), as the values PInf, NInf and NaN with    *)
(* the rules of IEEE arithmetic for them.  A vector (THREE.Vector2) is a   *)
(* pair <<x, y>>.                                                          *)
(***************************************************************************)
EXTENDS Integers, Sequences, FiniteSets, TLC

---------------------------------------------------------------------------
(* JavaScript numbers *)

\* the number of model units in 1.0
SCALE == 10 * 10

PInf == 10^9
NInf == 0 - PInf
NaN == PInf + 1

IsNaN(a) == a = NaN
IsFinite(a) == a > NInf /\ a < PInf
Sign(a) == IF a > 0 THEN 1 ELSE IF a < 0 THEN 0 - 1 ELSE 0
Mag(a) == IF a < 0 THEN 0 - a ELSE a
\* integer quotient rounded toward zero
TDiv(a, b) == Sign(a) * Sign(b) * (Mag(a) \div Mag(b))
\* n/d as a number of the model
Num(n, d) == TDiv(n * SCALE, d)

\* a + b
Add(a, b) ==
    IF IsNaN(a) \/ IsNaN(b) THEN NaN
    ELSE IF ~IsFinite(a) THEN (IF ~IsFinite(b) /\ b # a THEN NaN ELSE a)
    ELSE IF ~IsFinite(b) THEN b
    ELSE a + b

\* -a
Neg(a) == IF IsNaN(a) THEN NaN ELSE 0 - a

\* a - b
Sub(a, b) == Add(a, Neg(b))

\* a * b
Mul(a, b) ==
    IF IsNaN(a) \/ IsNaN(b) THEN NaN
    ELSE IF ~IsFinite(a) \/ ~IsFinite(b)
         THEN (IF a = 0 \/ b = 0 THEN NaN ELSE Sign(a) * Sign(b) * PInf)
    ELSE TDiv(a * b, SCALE)

\* a / b  (a zero divisor is +0: the program divides by lengths and constants)
Div(a, b) ==
    IF IsNaN(a) \/ IsNaN(b) THEN NaN
    ELSE IF ~IsFinite(a)
         THEN (IF ~IsFinite(b) THEN NaN
               ELSE IF b < 0 THEN Neg(a) ELSE a)
    ELSE IF ~IsFinite(b) THEN 0
    ELSE IF b = 0 THEN (IF a = 0 THEN NaN ELSE Sign(a) * PInf)
    ELSE TDiv(a * SCALE, b)

\* Math.abs
Abs(a) == IF IsNaN(a) THEN NaN ELSE Mag(a)

\* a < b, a > b: false when either is NaN
Lt(a, b) == ~IsNaN(a) /\ ~IsNaN(b) /\ a < b
Gt(a, b) == Lt(b, a)

RECURSIVE ISqrtIter(_, _, _)
ISqrtIter(n, lo, hi) ==
    IF lo >= hi THEN lo
    ELSE LET mid == (lo + hi + 1) \div 2
         IN  IF mid * mid <= n THEN ISqrtIter(n, mid, hi)
             ELSE ISqrtIter(n, lo, mid - 1)

\* the integer square root of n >= 0
ISqrt(n) == ISqrtIter(n, 0, IF n < 46340 THEN n ELSE 46340)

---------------------------------------------------------------------------
(* THREE.Vector2 (the library version with addSelf and subSelf) *)

VFinite(v) == IsFinite(v[1]) /\ IsFinite(v[2])
VAdd(a, b) == <<Add(a[1], b[1]), Add(a[2], b[2])>>
VSub(a, b) == <<Sub(a[1], b[1]), Sub(a[2], b[2])>>
VMultiplyScalar(v, s) == <<Mul(v[1], s), Mul(v[2], s)>>
VDot(a, b) == Add(Mul(a[1], b[1]), Mul(a[2], b[2]))

\* length(): Math.sqrt(x*x + y*y)
VLength(v) ==
    IF IsNaN(v[1]) \/ IsNaN(v[2]) THEN NaN
    ELSE IF ~VFinite(v) THEN PInf
    ELSE LET m == IF Mag(v[1]) > Mag(v[2]) THEN Mag(v[1]) ELSE Mag(v[2])
             q == m \div 30000 + 1
         IN  ISqrt((v[1] \div q) * (v[1] \div q) + (v[2] \div q) * (v[2] \div q)) * q

\* divideScalar(s): if (s) { x /= s; y /= s } else { set(0, 0) }
VDivideScalar(v, s) ==
    IF s = 0 \/ IsNaN(s) THEN <<0, 0>>
    ELSE <<Div(v[1], s), Div(v[2], s)>>

\* normalize(): divideScalar(length())
VNormalize(v) == VDivideScalar(v, VLength(v))

\* setLength(l): normalize().multiplyScalar(l)
VSetLength(v, l) == VMultiplyScalar(VNormalize(v), l)

\* distanceTo(v)
VDistanceTo(a, b) == VLength(VSub(a, b))

---------------------------------------------------------------------------
(* The program's constants (src/script.js:10-25), in the program's units *)

RADIUS == 2
ATTACK_DISTANCE == 40
ATTACK_THRUSTERS == 8
THRUSTERS == 8
MAX_SPEED == 5
CONNECT_DIST == 100
TIME_STEP == Num(1, 10)
COLLISION_EPSILON == Num(1, 10)

\* The program sets STARTING_LIVES = 10, ATTACK_DELAY = 20 and
\* addTime = Math.floor(1000/LOGIC_LOOP_TIME) = 200.  They count collisions
\* and logic ticks; the model runs the same code with smaller counts, so that
\* a death, an attack and a replenishment happen within MaxTicks ticks.
STARTING_LIVES == 1
ATTACK_DELAY == 2
addTime == 2

\* PlayerSystem's parameters (the constructor, part_000:294-300)
maxDist == 50
minDist == 30
correctionForce == 2
correctionPower == 2
damping == Num(8, 10)
maxParticleVel == 10

---------------------------------------------------------------------------
(* Bounds and inputs *)

\* the number of logic ticks explored
MaxTicks == 3
\* Player(x, y, number, color, team) for the two players: the population
\* caps (the program: 50 and 50) and the positions (the program: 400, 1000)
Number == <<2, 1>>
HomeX == <<100, 122>>
\* the random draws: boundedRand(0, 2 Pi) as the pair <<cos, sin>> of the
\* angle, boundedRand(minDist, maxDist)
Angles == {<<SCALE, 0>>}
ThrustAngles == {<<SCALE, 0>>}
SpawnDists == {minDist, maxDist}

Teams == {1, 2}
Null == 0 - 1

\* the keys of game.elements that the constructors register, in order:
\* Game (script.js:50), Player.show of playerOne and of playerTwo
\* (script.js:172-173, 409-410)
NoninteractingIndex == 0
PlayerIndex(t) == 2 * t - 1
SystemIndex(t) == 2 * t
IsParticleIndex(k) == k > SystemIndex(2)

---------------------------------------------------------------------------
(* State *)

VARIABLES
    parts,            \* every AttackParticle constructed, by gameIndex
    elements,         \* the keys of game.elements
    collidables,      \* game.collidables: collideIndex -> particle
    lastIndex,        \* game.lastIndex
    lastCollideIndex, \* game.lastCollideIndex
    logicFrame,       \* game.logicFrame
    drawFrame,        \* game.drawFrame
    sys,              \* the two PlayerSystems, by team
    player,           \* the two Players, by team
    flashes,          \* game.noninteracting.particles: index -> Flash
    flashIndex,       \* game.noninteracting.lastIndex
    timers,           \* pending makeOne callbacks (window.setTimeout), by team
    pc,               \* where the logic loop is: "idle" between two ticks
    scan,             \* the collision scan: the pair examined next
    cursor,           \* the logic phase: the key of game.elements run next
    ran,              \* what has run in this tick, in order: <<"cleanup", 0>>,
                      \* <<"collide", 0>> per pair, <<"doLogic", key>>
    stepper           \* a system handed to eulerStep and trapezoidalStep on
                      \* its own: its state, its derivative, the results

vars == <<parts, elements, collidables, lastIndex, lastCollideIndex,
          logicFrame, drawFrame, sys, player, flashes, flashIndex, timers,
          pc, scan, cursor, ran, stepper>>

\* the keys of an object (for .. in visits integer keys in ascending order)
Keys(f) == DOMAIN f
Delete(f, k) == [x \in (DOMAIN f) \ {k} |-> f[x]]
Put(f, k, v) == [x \in (DOMAIN f) \cup {k} |-> IF x = k THEN v ELSE f[x]]
Empty == [x \in {} |-> 0]

\* the keys of S in ascending order
RECURSIVE Ascending(_)
Ascending(S) ==
    IF S = {} THEN <<>>
    ELSE LET m == CHOOSE x \in S : \A y \in S : x <= y
         IN  <<m>> \o Ascending(S \ {m})

\* new Player(x, y, number, color, team) with its PlayerSystem
\* (script.js:149-160, part_000:109-121, 288-310); pos is the one vector
\* that the Player and its system share
NewPlayer(x, y) ==
    [pos |-> <<Num(x, 1), Num(y, 1)>>, age |-> 0,
     left |-> FALSE, right |-> FALSE, up |-> FALSE, down |-> FALSE]

NewPlayerSystem(number, team) ==
    [particles |-> Empty, lastIndex |-> 0 - 1, team |-> team, color |-> team,
     maxParticles |-> number, addCounter |-> 0, age |-> 0]

\* new Flash(pos, color) / new FastFlash(pos, color)
\* (noninteracting.js:257-263, 311-315)
NewFlash(pos, color, type) ==
    [pos |-> pos, color |-> color, draws |-> 0,
     maxDraws |-> IF type = "fast" THEN 5 ELSE 20,
     radius |-> IF type = "fast" THEN 20 ELSE 10]

\* new AttackParticle(pos, vel, color, system)
\* (part_001:17-23, 99-104, 139-148); no constructor sets distances, which
\* hasDistances tells: the list is undefined until logicLoop assigns it
NewAttackParticle(pos, vel, color, team) ==
    [pos |-> pos, vel |-> vel, age |-> 0, lives |-> STARTING_LIVES,
     radius |-> Num(RADIUS, 1), color |-> color, team |-> team,
     target |-> Null, connected |-> TRUE, attacking |-> FALSE,
     attackDelay |-> 0, key |-> 0 - 1, gameIndex |-> Null,
     collideIndex |-> Null, distances |-> <<>>, hasDistances |-> FALSE]

\* the state after $(document).ready: the game, the two players shown, the
\* makeOne callbacks of the initial populations pending, the loops started
GameInit ==
    /\ parts = Empty
    /\ elements = {NoninteractingIndex} \cup
                  {PlayerIndex(t) : t \in Teams} \cup
                  {SystemIndex(t) : t \in Teams}
    /\ collidables = Empty
    /\ lastIndex = SystemIndex(2)
    /\ lastCollideIndex = 0 - 1
    /\ logicFrame = 0
    /\ drawFrame = 0
    /\ sys = [t \in Teams |-> NewPlayerSystem(Number[t], t)]
    /\ player = [t \in Teams |-> NewPlayer(HomeX[t], 0)]
    /\ flashes = Empty
    /\ flashIndex = 0 - 1
    /\ timers = [t \in Teams |-> Number[t]]
    /\ pc = "idle"
    /\ scan = <<0, 0>>
    /\ cursor = 0
    /\ ran = <<>>

\* the result of a stepper that has not run
NotRun == [ran |-> FALSE, state |-> Empty, evalCalls |-> 0]
\* the program hands no system to the steppers on their own
NoStepper ==
    [state |-> Empty, deriv |-> <<<<0, 0>>, <<0, 0>>, 0, 0>>, timeStep |-> 0,
     euler |-> NotRun, trapezoidal |-> NotRun]

Init == GameInit /\ stepper = NoStepper

---------------------------------------------------------------------------
(* Timers *)

\* Noninteracting.prototype.addFlash
AddFlash(fl, idx, pos, color, type) == Put(fl, idx + 1, NewFlash(pos, color, type))

\* a variant of NextParticleKey that takes the size of the mapping for the
\* next key; C8_KeysUnique fails under it
PopulationAsKey(s) == Cardinality(DOMAIN s.particles)

\* self.lastIndex++ ; particle.key = self.lastIndex
NextParticleKey(s) == s.lastIndex + 1

\* the makeOne callback of PlayerSystem.prototype.addParticles, with
\* Game.prototype.addSprite(particle, true) and the spawn flash
MakeOne(t) ==
    /\ pc = "idle"
    /\ timers[t] > 0
    /\ \E angle \in Angles, dist \in SpawnDists :
        LET pos == VAdd(player[t].pos,
                        VMultiplyScalar(angle, Num(dist, 1)))
            key == NextParticleKey(sys[t])
            gi == lastIndex + 1
            ci == lastCollideIndex + 1
            particle == [NewAttackParticle(pos, <<0, 0>>, sys[t].color, t)
                           EXCEPT !.key = key, !.gameIndex = gi,
                                  !.collideIndex = ci]
        IN  /\ parts' = Put(parts, gi, particle)
            /\ sys' = [sys EXCEPT ![t].lastIndex = key,
                                  ![t].particles = Put(@, key, gi)]
            /\ lastIndex' = gi
            /\ elements' = elements \cup {gi}
            /\ lastCollideIndex' = ci
            /\ collidables' = Put(collidables, ci, gi)
            /\ flashes' = AddFlash(flashes, flashIndex, pos, particle.color, "fast")
            /\ flashIndex' = flashIndex + 1
    /\ timers' = [timers EXCEPT ![t] = @ - 1]
    /\ UNCHANGED <<stepper, drawFrame>>
    /\ UNCHANGED <<logicFrame, player, pc, scan, cursor, ran>>

---------------------------------------------------------------------------
(* The logic loop, phase 1: removal of the dead sprites (script.js:327-333) *)

\* a variant of IsDead with < for <=; C10_Cleanup fails under it
IsDeadBelowZero(p) == p.lives < 0

\* AttackParticle.prototype.isDead
IsDead(p) == p.lives <= 0

\* a variant of ElementIsDead in which a system without particles is dead;
\* C27_FixedElementsStay fails under it
ElementIsDeadWhenEmpty(k) ==
    IF IsParticleIndex(k) THEN IsDead(parts[k])
    ELSE \E t \in Teams : k = SystemIndex(t) /\ DOMAIN sys[t].particles = {}

\* isDead() of the element at key k of game.elements: an AttackParticle's,
\* Noninteracting's, Player's or ParticleSystem's (its dead flag is never set)
ElementIsDead(k) == IF IsParticleIndex(k) THEN IsDead(parts[k]) ELSE FALSE

\* a variant of Die that leaves the particle in its system;
\* C34_RegistriesAgree fails under it
DieWithoutLeavingSystem(g, p) ==
    [g EXCEPT !.flashes = AddFlash(g.flashes, g.flashIndex, p.pos, p.color, "slow"),
              !.flashIndex = g.flashIndex + 1]

\* AttackParticle.prototype.die, on the record g of what the cleanup changes
Die(g, p) ==
    [g EXCEPT !.flashes = AddFlash(g.flashes, g.flashIndex, p.pos, p.color, "slow"),
              !.flashIndex = g.flashIndex + 1,
              !.sys[p.team].particles = Delete(@, p.key)]

\* a variant of RemoveSprite that leaves the sprite in game.collidables;
\* C31_DeadTakeNoPart fails under it
RemoveSpriteFromElementsOnly(g, k) ==
    LET d == IF IsParticleIndex(k) THEN Die(g, parts[k]) ELSE g
    IN  [d EXCEPT !.elements = @ \ {k}]

\* Game.prototype.removeSprite
RemoveSprite(g, k) ==
    LET d == IF IsParticleIndex(k) THEN Die(g, parts[k]) ELSE g
        ci == IF IsParticleIndex(k) THEN parts[k].collideIndex ELSE Null
    IN  [d EXCEPT !.collidables = Delete(@, ci),
                  !.elements = @ \ {k}]

\* the loop over game.elements
RECURSIVE RemoveDead(_, _)
RemoveDead(g, keys) ==
    IF keys = <<>> THEN g
    ELSE RemoveDead(IF ElementIsDead(Head(keys))
                    THEN RemoveSprite(g, Head(keys)) ELSE g,
                    Tail(keys))

\* the first pair of the scan over n collidables, or <<0, 0>> when there is none
FirstPair(n) == IF n >= 2 THEN <<2, 1>> ELSE <<0, 0>>
\* a variant of NextPair whose inner loop stops after its first iteration;
\* C25_ScanRecordsEveryPair fails under it
NextPairOuterOnly(pair, n) ==
    IF pair[1] + 1 <= n THEN <<pair[1] + 1, 1>> ELSE <<0, 0>>

\* the pair after <<one, i>>
NextPair(pair, n) ==
    IF pair[2] + 1 < pair[1] THEN <<pair[1], pair[2] + 1>>
    ELSE IF pair[1] + 1 <= n THEN <<pair[1] + 1, 1>>
    ELSE <<0, 0>>

\* a variant of FirstKey that starts the loop at the last key;
\* C1_IntegrationBeforeAcquisition fails under it
LastKey(S) == CHOOSE x \in S : \A y \in S : x >= y

\* the first key of game.elements in the order of for..in
FirstKey(S) == CHOOSE x \in S : \A y \in S : x <= y
\* the key of game.elements after k, or Null after the last
NextKey(S, k) ==
    IF \E x \in S : x > k
    THEN CHOOSE x \in S : x > k /\ \A y \in S : y > k => x <= y
    ELSE Null

\* a variant of ClearDistances that leaves the list as it is;
\* C35_DistancesResolve fails under it
KeepDistances(p) == p

\* game.collidables[key].distances = [] (script.js:340)
ClearDistances(p) == [p EXCEPT !.distances = <<>>, !.hasDistances = TRUE]

\* logicLoop up to the collision scan: logicUpdate, the removal of the dead
\* sprites, and the reset of every collidable's distances
StartTick ==
    /\ pc = "idle"
    /\ logicFrame' = logicFrame + 1
    /\ LET g == RemoveDead([sys |-> sys, collidables |-> collidables,
                            elements |-> elements, flashes |-> flashes,
                            flashIndex |-> flashIndex],
                           Ascending(elements))
           live == {g.collidables[c] : c \in DOMAIN g.collidables}
           n == Cardinality(DOMAIN g.collidables)
       IN  /\ sys' = g.sys
           /\ collidables' = g.collidables
           /\ elements' = g.elements
           /\ flashes' = g.flashes
           /\ flashIndex' = g.flashIndex
           /\ parts' = [k \in DOMAIN parts |->
                          IF k \in live THEN ClearDistances(parts[k])
                          ELSE parts[k]]
           /\ scan' = FirstPair(n)
           /\ IF n >= 2
              THEN pc' = "collide" /\ cursor' = cursor
              ELSE pc' = "logic" /\ cursor' = FirstKey(g.elements)
    /\ ran' = <<<<"cleanup", 0>>>>
    /\ UNCHANGED <<stepper, drawFrame>>
    /\ UNCHANGED <<lastIndex, lastCollideIndex, player, timers>>

\* the call of logicLoop by its interval timer (script.js:414), for MaxTicks
\* ticks
Cleanup == logicFrame < MaxTicks /\ StartTick

---------------------------------------------------------------------------
(* Phase 2: the collision scan (script.js:343-371) *)

\* a variant of Reflect that takes the velocity along the normal away
\* without returning it; C29_VelocityReflected fails under it
ReflectWithoutBounce(v, normal) ==
    VAdd(v, VSetLength(normal, Mul(Num(0 - 1, 1), VDot(v, normal))))

\* the new velocity: scaledNormal = normal.clone(),
\* scaledNormal.setLength(-2.0 * newVel.dot(normal)),
\* newVel.addSelf(scaledNormal) (part_000:466-469, 473-476)
Reflect(v, normal) ==
    VAdd(v, VSetLength(normal, Mul(Num(0 - 2, 1), VDot(v, normal))))

\* resolveCollision(one, two): the two particles afterwards
ResolveCollision(one, two) ==
    LET totRadius == Add(Add(one.radius, two.radius), COLLISION_EPSILON)
        centersVec == VSub(one.pos, two.pos)
        totDistance == VLength(centersVec)
        totVel == VAdd(one.vel, two.vel)
        totVelMag == VLength(totVel)
        normal == VNormalize(centersVec)
        rewindTime == Abs(Div(Sub(totRadius, totDistance), totVelMag))
        Rewind(p, newVel) ==
            <<Add(p.pos[1], Mul(rewindTime, Sub(newVel[1], p.vel[1]))),
              Add(p.pos[2], Mul(rewindTime, Sub(newVel[2], p.vel[2])))>>
        newVelOne == Reflect(one.vel, normal)
        newVelTwo == Reflect(two.vel, normal)
    IN  <<[one EXCEPT !.pos = Rewind(one, newVelOne), !.vel = newVelOne],
          [two EXCEPT !.pos = Rewind(two, newVelTwo), !.vel = newVelTwo]>>

\* the overlap test of the scan
Overlap(one, two) ==
    Lt(VDistanceTo(one.pos, two.pos),
       Add(Add(two.radius, one.radius), COLLISION_EPSILON))

\* a variant of Damage with ++ for --; C4_LivesNeverIncrease fails under it
Heal(p, other) == IF p.team # other.team THEN p.lives + 1 ELSE p.lives

\* a variant of Damage without the test of the teams; C5_PairDamage fails
\* under it
DamageAnyTeam(p, other) == p.lives - 1

\* one.lives-- ; two.lives-- for two particles of different teams
Damage(p, other) == IF p.team # other.team THEN p.lives - 1 ELSE p.lives

\* the body of the scan's inner loop for the pair <<one, two>>
CollideBody(one, two) ==
    LET totDistance == VDistanceTo(one.pos, two.pos)
        two1 == [two EXCEPT !.distances = Append(@, <<one.collideIndex, totDistance>>)]
        one1 == [one EXCEPT !.distances = Append(@, <<two.collideIndex, totDistance>>)]
        r == ResolveCollision(one1, two1)
    IN  IF Overlap(one, two)
        THEN <<[r[1] EXCEPT !.lives = Damage(one, two)],
               [r[2] EXCEPT !.lives = Damage(two, one)]>>
        ELSE <<one1, two1>>

\* the particles of the pair that the scan examines next
ScanOrder == Ascending(DOMAIN collidables)
ScanOne == collidables[ScanOrder[scan[1]]]
ScanTwo == collidables[ScanOrder[scan[2]]]

\* one iteration of the inner loop
CollidePair ==
    /\ pc = "collide"
    /\ LET r == CollideBody(parts[ScanOne], parts[ScanTwo])
           nxt == NextPair(scan, Len(ScanOrder))
       IN  /\ parts' = [parts EXCEPT ![ScanOne] = r[1], ![ScanTwo] = r[2]]
           /\ scan' = nxt
           /\ ran' = Append(ran, <<"collide", 0>>)
           /\ IF nxt = <<0, 0>>
              THEN pc' = "logic" /\ cursor' = FirstKey(elements)
              ELSE pc' = "collide" /\ cursor' = cursor
    /\ UNCHANGED <<stepper, drawFrame>>
    /\ UNCHANGED <<elements, collidables, lastIndex, lastCollideIndex,
                   logicFrame, sys, player, flashes, flashIndex, timers>>

---------------------------------------------------------------------------
(* Phase 3: doLogic of every element of game.elements (script.js:373-378) *)

\* Math.pow(x, n) for a whole n >= 0
RECURSIVE Pow(_, _)
Pow(x, n) == IF n = 0 THEN Num(1, 1) ELSE Mul(x, Pow(x, n - 1))

\* <<Math.cos(a), Math.sin(a)>> for a = center.angleWith(pos): the direction
\* from pos back to center
AngleWith(center, pos) == VNormalize(VSub(center, pos))

\* AttackParticle.prototype.evalDeriv, lines 185-190: the acceleration toward
\* the target, <<0, 0>> when none is applied
AttackAccel(p, state) ==
    IF p.target # Null /\ Gt(state[4], Num(ATTACK_DELAY, 1))
    THEN VSetLength(VSub(state[1], parts[p.target].pos),
                    Num(0 - ATTACK_THRUSTERS, 1))
    ELSE <<0, 0>>

\* a variant of HasTarget that sends a particle whose attackDelay is not above
\* ATTACK_DELAY on to the branches of a particle without a target;
\* C19_NoThrustBeforeDelay fails under it
HasTargetAndDelay(p, state) ==
    p.target # Null /\ Gt(state[4], Num(ATTACK_DELAY, 1))

\* the first condition of evalDeriv's if / else if chain (part_001:185)
HasTarget(p, state) == p.target # Null

\* evalDeriv's acceleration before the bound by MAX_SPEED: the contribution
\* of the branch taken plus the damping (part_001:185-224), angle being the
\* direction <<cos, sin>> of the randomized angle
AccelBeforeBound(p, state, angle) ==
    LET pos == state[1]
        vel == state[2]
        home == player[p.team].pos
        dist == VDistanceTo(home, pos)
        hasTarget == HasTarget(p, state)
        thrust == VSetLength(angle, Num(THRUSTERS, 1))
        correction ==
            VSetLength(AngleWith(home, pos),
                       Mul(Pow(Div(dist, Num(maxDist, 1)), correctionPower),
                           Num(correctionForce, 1)))
        accel0 ==
            IF hasTarget THEN AttackAccel(p, state)
            ELSE IF p.connected
                 THEN (IF Gt(dist, Num(maxDist, 1))
                       THEN VAdd(thrust, correction) ELSE thrust)
            ELSE <<0, 0>>
        velMag == VLength(vel)
        damp ==
            VSetLength(vel,
                Div(Mul(Mul(Mul(Num(0 - 1, 1), damping), velMag), dist),
                    Mul(Num(maxParticleVel, 1), Num(maxDist, 1))))
    IN  VAdd(accel0, damp)

\* the bound of the length to the maximum speed (part_001:226-228)
BoundLength(accel) ==
    IF Gt(VLength(accel), Num(MAX_SPEED, 1))
    THEN VSetLength(accel, Num(MAX_SPEED, 1))
    ELSE accel

\* AttackParticle.prototype.evalDeriv(state) of particle p: the derivative
\* returned and the particle's connected flag afterwards
ParticleEvalDeriv(p, state, angle) ==
    LET hasTarget == HasTarget(p, state)
        dist == VDistanceTo(player[p.team].pos, state[1])
        accel == BoundLength(AccelBeforeBound(p, state, angle))
        delayIncr == IF hasTarget THEN Num(1, 1) ELSE 0
    IN  [deriv |-> <<state[2], accel, Num(1, 1), delayIncr>>,
         connected |-> p.connected \/
                       (~hasTarget /\ Lt(dist, Num(CONNECT_DIST, 1)))]

\* ParticleSystem.prototype.getState
GetState(S, t) ==
    [k \in DOMAIN S[t].particles |->
        LET p == parts[S[t].particles[k]]
        IN  <<p.pos, p.vel, p.age, p.attackDelay>>]

\* eulerStep, the loop of lines 15-30: the state handed to setState, deriv
\* being what the one call of evalDeriv returned
EulerStep(currentState, deriv, timeStep) ==
    [k \in DOMAIN currentState |->
        <<VAdd(currentState[k][1], VMultiplyScalar(deriv[k][1], timeStep)),
          VAdd(currentState[k][2], VMultiplyScalar(deriv[k][2], timeStep)),
          Add(currentState[k][3], Mul(deriv[k][3], timeStep)),
          Add(currentState[k][4], deriv[k][4])>>]

\* trapezoidalStep, first loop: the state after a full Euler step
TrapezoidalTrial(currentState, deriv, timeStep) ==
    [k \in DOMAIN currentState |->
        <<VAdd(currentState[k][1], VMultiplyScalar(deriv[k][1], timeStep)),
          VAdd(currentState[k][2], VMultiplyScalar(deriv[k][2], timeStep)),
          Add(currentState[k][3], Mul(deriv[k][3], timeStep)),
          Add(currentState[k][4], deriv[k][4])>>]

\* a variant of TrapezoidalFinal in which thisDerivTwo is nextDeriv[key], so
\* that the second evaluation reaches the state; C20_ReconnectWithDampingOnly
\* fails under it
TrapezoidalFinalReadingNextDeriv(nextState, deriv, nextDeriv, timeStep) ==
    LET half == Mul(timeStep, Num(1, 2))
    IN  [k \in DOMAIN nextState |->
            <<VAdd(VAdd(nextState[k][1], VMultiplyScalar(deriv[k][1], half)),
                   VMultiplyScalar(nextDeriv[k][1], half)),
              VAdd(VAdd(nextState[k][2], VMultiplyScalar(deriv[k][2], half)),
                   VMultiplyScalar(nextDeriv[k][2], half)),
              Add(nextState[k][3],
                  Mul(Mul(Add(deriv[k][3], nextDeriv[k][3]), timeStep), Num(1, 2))),
              Add(nextState[k][4],
                  Mul(Add(deriv[k][3], nextDeriv[k][3]), Num(1, 2)))>>]

\* trapezoidalStep, second loop.  thisDerivOne and thisDerivTwo are both
\* deriv[key], one array: its two vectors are scaled in place twice and added
\* twice, to the trial state; nextDeriv is not read
TrapezoidalFinal(nextState, deriv, nextDeriv, timeStep) ==
    LET half == Mul(timeStep, Num(1, 2))
        Twice(v) == VMultiplyScalar(VMultiplyScalar(v, half), half)
    IN  [k \in DOMAIN nextState |->
            <<VAdd(VAdd(nextState[k][1], Twice(deriv[k][1])), Twice(deriv[k][1])),
              VAdd(VAdd(nextState[k][2], Twice(deriv[k][2])), Twice(deriv[k][2])),
              Add(nextState[k][3],
                  Mul(Mul(Add(deriv[k][3], deriv[k][3]), timeStep), Num(1, 2))),
              Add(nextState[k][4], Mul(Add(deriv[k][3], deriv[k][3]), Num(1, 2)))>>]

\* a variant of ReplenishParticles without the test of the population;
\* C9_Replenish fails under it
ReplenishAboveCap(s) ==
    IF s.addCounter < addTime
    THEN <<[s EXCEPT !.addCounter = @ + 1], 0>>
    ELSE <<[s EXCEPT !.addCounter = 0], 1>>

\* a variant of ReplenishParticles that leaves addCounter at addTime when it
\* adds a particle; C30_SpawnThrottled fails under it
ReplenishWithoutReset(s) ==
    IF s.addCounter < addTime
    THEN <<[s EXCEPT !.addCounter = @ + 1], 0>>
    ELSE IF Cardinality(DOMAIN s.particles) < s.maxParticles
         THEN <<s, 1>>
         ELSE <<s, 0>>

\* a variant of ReplenishParticles that tests addCounter <= addTime, which
\* puts the spawn one call later; C26_ReplenishedWithinAddTime fails under it
ReplenishOneCallLate(s) ==
    IF s.addCounter <= addTime
    THEN <<[s EXCEPT !.addCounter = @ + 1], 0>>
    ELSE IF Cardinality(DOMAIN s.particles) < s.maxParticles
         THEN <<[s EXCEPT !.addCounter = 0], 1>>
         ELSE <<s, 0>>

\* PlayerSystem.prototype.replenishParticles: the system afterwards and the
\* number of makeOne callbacks that addParticles(1) schedules
ReplenishParticles(s) ==
    IF s.addCounter < addTime
    THEN <<[s EXCEPT !.addCounter = @ + 1], 0>>
    ELSE IF Cardinality(DOMAIN s.particles) < s.maxParticles
         THEN <<[s EXCEPT !.addCounter = 0], 1>>
         ELSE <<s, 0>>

\* the loop of script.js:374-378 moves on to the next key of game.elements
Advance ==
    /\ cursor' = NextKey(elements, cursor)
    /\ pc' = IF cursor' = Null THEN "idle" ELSE "logic"
    /\ ran' = Append(ran, <<"doLogic", cursor>>)

\* PlayerSystem.prototype.doLogic: replenishParticles, trapezoidalStep with
\* PlayerSystem.prototype.evalDeriv and setState, age.  angles gives every
\* particle its random draw in the first evaluation; the derivative of the
\* second evaluation is not read, only its assignment to connected matters
PlayerSystemDoLogic(t) ==
    /\ pc = "logic"
    /\ cursor = SystemIndex(t)
    /\ LET keys == DOMAIN sys[t].particles
           P(k) == parts[sys[t].particles[k]]
       IN  \E angles \in [keys -> ThrustAngles] :
           \E currentState \in {GetState(sys, t)} :
           \E ev1 \in {[k \in keys |->
                          ParticleEvalDeriv(P(k), currentState[k], angles[k])]} :
           \E deriv \in {[k \in keys |-> ev1[k].deriv]} :
           \E nextState \in {TrapezoidalTrial(currentState, deriv, TIME_STEP)} :
           \E ev2 \in {[k \in keys |->
                          ParticleEvalDeriv([P(k) EXCEPT !.connected = ev1[k].connected],
                                            nextState[k], angles[k])]} :
           \E nextDeriv \in {[k \in keys |-> ev2[k].deriv]} :
           \E newState \in {TrapezoidalFinal(nextState, deriv, nextDeriv, TIME_STEP)} :
              \* setState
              parts' = [g \in DOMAIN parts |->
                          IF \E k \in keys : sys[t].particles[k] = g
                          THEN LET k == parts[g].key
                               IN  [parts[g] EXCEPT
                                      !.pos = newState[k][1],
                                      !.vel = newState[k][2],
                                      !.age = newState[k][3],
                                      !.attackDelay = newState[k][4],
                                      !.connected = ev2[k].connected]
                          ELSE parts[g]]
    /\ \E rep \in {ReplenishParticles(sys[t])} :
        /\ sys' = [sys EXCEPT ![t] = [rep[1] EXCEPT !.age = Add(@, TIME_STEP)]]
        /\ timers' = [timers EXCEPT ![t] = @ + rep[2]]
    /\ Advance
    /\ UNCHANGED <<stepper, drawFrame>>
    /\ UNCHANGED <<elements, collidables, lastIndex, lastCollideIndex,
                   logicFrame, player, flashes, flashIndex, scan>>

\* Array.prototype.sort with the comparator a[1] - b[1], as the insertion
\* sort that the engine runs on a short array: an element moves left past
\* the elements whose comparison with it is > 0 (never so for NaN)
RECURSIVE InsertSorted(_, _, _)
InsertSorted(sorted, e, j) ==
    IF j >= 1 /\ Gt(Sub(sorted[j][2], e[2]), 0)
    THEN InsertSorted(sorted, e, j - 1)
    ELSE SubSeq(sorted, 1, j) \o <<e>> \o SubSeq(sorted, j + 1, Len(sorted))

RECURSIVE SortFrom(_, _)
SortFrom(arr, i) ==
    IF i > Len(arr) THEN arr
    ELSE SortFrom(InsertSorted(SubSeq(arr, 1, i - 1), arr[i], i - 1)
                  \o SubSeq(arr, i + 1, Len(arr)), i + 1)

SortDistances(arr) == SortFrom(arr, 2)

\* AttackParticle.prototype.doLogic, lines 250-254: the target after the
\* check of the current target
CheckTarget(p) ==
    IF p.target # Null /\ ~IsDead(parts[p.target]) THEN Null ELSE p.target

\* the condition of line 258 under which the scan for a target runs
NeedsTarget(tgt) == tgt = Null \/ IsDead(parts[tgt])

\* a variant of Disengages with the comparison of the two distances turned
\* round; C17_Disengage fails under it
DisengagesFarFromHome(dist, homeDist) ==
    Gt(dist, Num(ATTACK_DISTANCE, 1)) /\ Gt(homeDist, dist)

\* a variant of Disengages without the comparison with the distance from
\* home; C16_LockOnAttacker fails under it
DisengagesWhenFar(dist, homeDist) == Gt(dist, Num(ATTACK_DISTANCE, 1))

\* the condition of line 265
Disengages(dist, homeDist) ==
    Gt(dist, Num(ATTACK_DISTANCE, 1)) /\ Lt(homeDist, dist)

\* the condition of line 273
BothAttacking(p, enemy) == p.attacking /\ enemy.attacking /\ ~IsDead(enemy)

\* a variant of InAttackDistance without the test that the enemy is alive;
\* C15_LockNearest fails under it
InAttackDistanceDead(dist, enemy) == Lt(dist, Num(ATTACK_DISTANCE, 1))

\* the condition of line 281
InAttackDistance(dist, enemy) ==
    Lt(dist, Num(ATTACK_DISTANCE, 1)) /\ ~IsDead(enemy)

\* lines 269-270 and lines 276-278, 284-286
Disengage(p) == [p EXCEPT !.attacking = FALSE, !.connected = TRUE]
Lock(p, enemy) ==
    [p EXCEPT !.target = enemy.gameIndex, !.attacking = TRUE,
              !.connected = FALSE]

\* a variant of OtherTeam that takes every recorded particle for an enemy;
\* C36_TargetIsEnemy fails under it
AnyTeam(p, enemy) == TRUE

\* the condition of line 264: enemy.team !== this.team
OtherTeam(p, enemy) == enemy.team # p.team

\* the scan of lines 259-290 from entry i of the sorted distances
RECURSIVE ScanDistances(_, _)
ScanDistances(p, i) ==
    IF i > Len(p.distances) THEN p
    ELSE LET enemy == parts[collidables[p.distances[i][1]]]
             dist == p.distances[i][2]
             homeDist == VDistanceTo(player[p.team].pos, p.pos)
         IN  IF OtherTeam(p, enemy)
             THEN IF Disengages(dist, homeDist) THEN Disengage(p)
                  ELSE IF BothAttacking(p, enemy) THEN Lock(p, enemy)
                  ELSE IF InAttackDistance(dist, enemy) THEN Lock(p, enemy)
                  ELSE ScanDistances(p, i + 1)
             ELSE ScanDistances(p, i + 1)

\* AttackParticle.prototype.doLogic: the particle afterwards
ParticleDoLogic(p) ==
    LET sorted == [p EXCEPT !.distances = SortDistances(@)]
        checked == [sorted EXCEPT !.target = CheckTarget(p)]
    IN  IF NeedsTarget(checked.target) THEN ScanDistances(checked, 1)
        ELSE checked

AttackParticleDoLogic ==
    /\ pc = "logic"
    /\ IsParticleIndex(cursor)
    /\ parts' = [parts EXCEPT ![cursor] = ParticleDoLogic(parts[cursor])]
    /\ Advance
    /\ UNCHANGED <<stepper, drawFrame>>
    /\ UNCHANGED <<elements, collidables, lastIndex, lastCollideIndex,
                   logicFrame, sys, player, flashes, flashIndex, timers, scan>>

\* the canvas (game.width, game.height)
GameWidth == 1200
GameHeight == 600
PLAYER_VEL == Num(1, 2)

\* Player.prototype.doLogic.  this.system.pos and this.pos are one vector
\* (script.js:152, 158), so dir is added to it twice
PlayerMove(pl) ==
    LET dx == (IF pl.right /\ pl.pos[1] <= Num(GameWidth, 1) THEN 1 ELSE 0)
              - (IF pl.left /\ pl.pos[1] >= 0 THEN 1 ELSE 0)
        dy == (IF pl.down /\ pl.pos[2] <= Num(GameHeight, 1) THEN 1 ELSE 0)
              - (IF pl.up /\ pl.pos[2] >= 0 THEN 1 ELSE 0)
        dir == VSetLength(<<Num(dx, 1), Num(dy, 1)>>, PLAYER_VEL)
        moved == VAdd(pl.pos, dir)
    IN  [pl EXCEPT !.pos = <<Add(moved[1], dir[1]), Add(moved[2], dir[2])>>]

PlayerDoLogic(t) ==
    /\ pc = "logic"
    /\ cursor = PlayerIndex(t)
    /\ player' = [player EXCEPT ![t] = PlayerMove(player[t])]
    /\ Advance
    /\ UNCHANGED <<stepper, drawFrame>>
    /\ UNCHANGED <<parts, elements, collidables, lastIndex, lastCollideIndex,
                   logicFrame, sys, flashes, flashIndex, timers, scan>>

\* a variant of FlashIsDead that asks for one draw more; C37_FlashLife fails
\* under it
FlashIsDeadLate(f) == f.draws > f.maxDraws

\* Flash.prototype.isDead
FlashIsDead(f) == f.draws >= f.maxDraws

\* Noninteracting.prototype.doLogic
NoninteractingDoLogic ==
    /\ pc = "logic"
    /\ cursor = NoninteractingIndex
    /\ flashes' = [k \in {x \in DOMAIN flashes : ~FlashIsDead(flashes[x])} |->
                     flashes[k]]
    /\ Advance
    /\ UNCHANGED <<stepper, drawFrame>>
    /\ UNCHANGED <<parts, elements, collidables, lastIndex, lastCollideIndex,
                   logicFrame, sys, player, flashIndex, timers, scan>>

---------------------------------------------------------------------------
(* The program: the timers' callbacks and the logic loop *)

Next ==
    \/ \E t \in Teams : MakeOne(t)
    \/ Cleanup
    \/ CollidePair
    \/ NoninteractingDoLogic
    \/ \E t \in Teams : PlayerDoLogic(t)
    \/ \E t \in Teams : PlayerSystemDoLogic(t)
    \/ AttackParticleDoLogic

Spec == Init /\ [][Next]_vars

\* the program under the scheduling of the page: logicLoop is one function
\* call, so a tick that has started runs to its end, and a callback handed
\* to window.setTimeout is delivered between two ticks
LiveSpec ==
    /\ Init /\ [][Next]_vars
    /\ \A t \in Teams : SF_vars(MakeOne(t))
    /\ []<>(pc = "idle")

---------------------------------------------------------------------------
(* The render ticks (script.js:301-315).  The interval callbacks of the    *)
(* page run one at a time, so a render tick falls between two logic ticks. *)
(* The calls on the canvas context change nothing that the program reads;  *)
(* getColorString and the drawCircle(pos, radius, ctx) that the draw       *)
(* methods call are not among the sources and belong to the rendering.     *)

\* the number of render ticks explored, and the number of logic ticks
\* explored along with them
MaxDrawFrames == 5
MaxRenderTicks == 1

\* a variant of FlashDraw without this.draws++; C21_RenderKeepsSimulation
\* fails under it
FlashDrawUncounted(f) == f

\* Flash.prototype.draw
FlashDraw(f) == [f EXCEPT !.draws = @ + 1]
\* Noninteracting.prototype.draw
NoninteractingDraw(fl) == [k \in DOMAIN fl |-> FlashDraw(fl[k])]
\* Player.prototype.draw
PlayerDraw(pl) == [pl EXCEPT !.age = @ + 1]

\* drawLoop: drawUpdate, clearScreen and the draw of every element of
\* game.elements.  ParticleSystem.prototype.draw and the draw of a particle
\* assign nothing
DrawTick ==
    /\ pc = "idle"
    /\ drawFrame' = drawFrame + 1
    /\ flashes' = IF NoninteractingIndex \in elements
                  THEN NoninteractingDraw(flashes) ELSE flashes
    /\ player' = [t \in Teams |->
                    IF PlayerIndex(t) \in elements
                    THEN PlayerDraw(player[t]) ELSE player[t]]
    /\ UNCHANGED <<parts, elements, collidables, lastIndex, lastCollideIndex,
                   logicFrame, sys, flashIndex, timers, pc, scan, cursor, ran,
                   stepper>>

\* drawLoop within the render ticks explored
DrawLoop == drawFrame < MaxDrawFrames /\ DrawTick

\* the program with its render ticks, over the first MaxRenderTicks logic
\* ticks
RenderNext ==
    \/ \E t \in Teams : MakeOne(t)
    \/ (logicFrame < MaxRenderTicks /\ Cleanup)
    \/ CollidePair
    \/ NoninteractingDoLogic
    \/ \E t \in Teams : PlayerDoLogic(t)
    \/ \E t \in Teams : PlayerSystemDoLogic(t)
    \/ AttackParticleDoLogic
    \/ DrawLoop

RenderSpec == Init /\ [][RenderNext]_vars

---------------------------------------------------------------------------
(* The flashes over their whole life: the draw loop and the logic loop of  *)
(* script.js:414-415 side by side, long enough for a Flash to be drawn     *)
(* maxDraws times.  The spawn callbacks that are due are delivered before  *)
(* the next tick of either loop.                                           *)

\* the number of render ticks and of logic ticks explored
MaxFlashDraws == 20
MaxFlashTicks == 3

\* no callback of window.setTimeout is pending
NoSpawnDue == \A t \in Teams : timers[t] = 0

FlashDrawLoop == drawFrame < MaxFlashDraws /\ NoSpawnDue /\ DrawTick
FlashLogicLoop == logicFrame < MaxFlashTicks /\ NoSpawnDue /\ StartTick

FlashNext ==
    \/ \E t \in Teams : MakeOne(t)
    \/ FlashLogicLoop
    \/ CollidePair
    \/ NoninteractingDoLogic
    \/ \E t \in Teams : PlayerDoLogic(t)
    \/ \E t \in Teams : PlayerSystemDoLogic(t)
    \/ AttackParticleDoLogic
    \/ FlashDrawLoop

FlashSpec == Init /\ [][FlashNext]_vars

---------------------------------------------------------------------------
(* The time steppers on a system of their own.  eulerStep and              *)
(* trapezoidalStep take any system with getState, evalDeriv and setState;  *)
(* here the system's evalDeriv returns one constant derivative for every   *)
(* key at every state.                                                     *)

\* the size of the system: keys 0 .. n - 1 for n in 1 .. MaxStepKeys
MaxStepKeys == 2
\* the states of a key, the derivatives and the step sizes tried
StepStates ==
    {<<pos, vel, age, delay>> :
        pos \in {<<0, 0>>, <<Num(3, 1), 0>>},
        vel \in {<<0, 0>>, <<Num(4, 1), 0>>},
        age \in {0}, delay \in {0, Num(3, 1)}}
StepDerivs ==
    {<<d0, d1, d2, d3>> :
        d0 \in {<<0, 0>>, <<Num(4, 1), 0>>},
        d1 \in {<<0, 0>>, <<0, Num(8, 1)>>},
        d2 \in {0, Num(1, 1)}, d3 \in {0, Num(1, 1)}}
StepSizes == {TIME_STEP, Num(1, 2)}

StepInit ==
    /\ GameInit
    /\ \E n \in 1..MaxStepKeys :
       \E state \in [0..(n - 1) -> StepStates] :
       \E deriv \in StepDerivs, timeStep \in StepSizes :
          stepper = [state |-> state, deriv |-> deriv, timeStep |-> timeStep,
                     euler |-> NotRun, trapezoidal |-> NotRun]

\* system.evalDeriv(state) of the constant-derivative system
ConstantEvalDeriv(state) == [k \in DOMAIN state |-> stepper.deriv]

\* eulerStep(system, timeStep): getState, one evalDeriv, the loop, setState
RunEulerStep ==
    /\ ~stepper.euler.ran
    /\ LET currentState == stepper.state
           deriv == ConstantEvalDeriv(currentState)
       IN  stepper' = [stepper EXCEPT !.euler =
                          [ran |-> TRUE,
                           state |-> EulerStep(currentState, deriv, stepper.timeStep),
                           evalCalls |-> 1]]
    /\ UNCHANGED <<parts, elements, collidables, lastIndex, lastCollideIndex,
                   logicFrame, drawFrame, sys, player, flashes, flashIndex,
                   timers, pc, scan, cursor, ran>>

\* trapezoidalStep(system, timeStep) from the same state: getState,
\* evalDeriv, the trial state, evalDeriv again, the second loop, setState
RunTrapezoidalStep ==
    /\ ~stepper.trapezoidal.ran
    /\ LET currentState == stepper.state
           deriv == ConstantEvalDeriv(currentState)
           nextState == TrapezoidalTrial(currentState, deriv, stepper.timeStep)
           nextDeriv == ConstantEvalDeriv(nextState)
       IN  stepper' = [stepper EXCEPT !.trapezoidal =
                          [ran |-> TRUE,
                           state |-> TrapezoidalFinal(nextState, deriv, nextDeriv,
                                                      stepper.timeStep),
                           evalCalls |-> 2]]
    /\ UNCHANGED <<parts, elements, collidables, lastIndex, lastCollideIndex,
                   logicFrame, drawFrame, sys, player, flashes, flashIndex,
                   timers, pc, scan, cursor, ran>>

StepNext == RunEulerStep \/ RunTrapezoidalStep

StepSpec == StepInit /\ [][StepNext]_vars

---------------------------------------------------------------------------
(* One logic tick in the middle of a game.  The tick starts from a state   *)
(* that a longer game leads to: a particle of team 1, one or two particles *)
(* of team 2 and a particle of team 2 that has died and been removed, with  *)
(* the positions, targets and flags that earlier ticks can have left.      *)

\* the gameIndex of the removed particle, of the particle of team 1 and of
\* the two particles of team 2
RemovedIndex == SystemIndex(2) + 1
SubjectIndex == SystemIndex(2) + 2
EnemyIndex(i) == SystemIndex(2) + 2 + i

\* what earlier ticks can have left in target, attacking and connected:
\* a fresh or disengaged particle; a disengaged particle that kept a target
\* that died; a particle whose target was cleared and no other found, before
\* and after it reconnected; a particle locked onto target tgt
FreshMode == [target |-> Null, attacking |-> FALSE, connected |-> TRUE]
Modes(targets) ==
    {FreshMode,
     [target |-> RemovedIndex, attacking |-> FALSE, connected |-> TRUE],
     [target |-> Null, attacking |-> TRUE, connected |-> FALSE],
     [target |-> Null, attacking |-> TRUE, connected |-> TRUE]}
    \cup {[target |-> tgt, attacking |-> TRUE, connected |-> FALSE] :
             tgt \in targets}

\* the x coordinates tried for the particle of team 1 and for the first and
\* the second particle of team 2
SubjectX == {130, 150}
EnemyX == <<{133, 172, 195}, {165, 185}>>
\* the attackDelay values tried: not above and above ATTACK_DELAY
Delays == {0, Num(ATTACK_DELAY + 1, 1)}

\* a particle in the middle of a game; one that has just been spawned has
\* age 0
Placed(team, key, gi, ci, x, vel, mode, delay) ==
    [NewAttackParticle(<<Num(x, 1), 0>>, vel, team, team) EXCEPT
        !.key = key, !.gameIndex = gi, !.collideIndex = ci,
        !.target = mode.target, !.attacking = mode.attacking,
        !.connected = mode.connected, !.attackDelay = delay,
        !.age = IF mode = FreshMode /\ delay = 0 THEN 0 ELSE Num(1, 1)]

BattleInit ==
    /\ \E n \in 1..2 :
       \E sx \in SubjectX, smode \in Modes({RemovedIndex, EnemyIndex(1)}),
          sdelay \in Delays :
       \E ex \in [1..n -> UNION {EnemyX[i] : i \in 1..2}] :
       \E emode \in [1..n -> {m \in Modes({SubjectIndex}) :
                                 m.target # RemovedIndex}] :
          /\ \A i \in 1..n : ex[i] \in EnemyX[i]
          /\ parts =
               [g \in (RemovedIndex..EnemyIndex(n)) |->
                  IF g = RemovedIndex
                  THEN [Placed(2, 0, g, 0, 160, <<0, 0>>,
                               [target |-> Null, attacking |-> TRUE,
                                connected |-> FALSE], 0)
                          EXCEPT !.lives = 0]
                  ELSE IF g = SubjectIndex
                  THEN Placed(1, 0, g, 1, sx, <<Num(1, 2), 0>>, smode, sdelay)
                  ELSE Placed(2, g - SubjectIndex, g, g - RemovedIndex,
                              ex[g - SubjectIndex], <<0, 0>>,
                              emode[g - SubjectIndex], 0)]
          /\ elements = 0..EnemyIndex(n) \ {RemovedIndex}
          /\ collidables = [c \in 1..(n + 1) |-> RemovedIndex + c]
          /\ lastIndex = EnemyIndex(n)
          /\ lastCollideIndex = n + 1
          /\ flashIndex = n + 2
          /\ sys = [t \in Teams |->
                      [NewPlayerSystem(Number[t], t) EXCEPT
                          !.particles = IF t = 1 THEN (0 :> SubjectIndex)
                                        ELSE [k \in 1..n |-> EnemyIndex(k)],
                          !.lastIndex = IF t = 1 THEN 0 ELSE n,
                          !.age = Num(1, 1)]]
    /\ logicFrame = MaxTicks - 1
    /\ drawFrame = 0
    /\ player = [t \in Teams |-> NewPlayer(HomeX[t], 0)]
    /\ flashes = Empty
    /\ timers = [t \in Teams |-> 0]
    /\ pc = "idle"
    /\ scan = <<0, 0>>
    /\ cursor = 0
    /\ ran = <<>>
    /\ stepper = NoStepper

\* the logic loop alone: no makeOne callback is pending
BattleNext ==
    \/ Cleanup
    \/ CollidePair
    \/ NoninteractingDoLogic
    \/ \E t \in Teams : PlayerDoLogic(t)
    \/ \E t \in Teams : PlayerSystemDoLogic(t)
    \/ AttackParticleDoLogic

BattleSpec == BattleInit /\ [][BattleNext]_vars

---------------------------------------------------------------------------
(* One logic tick of two particles that the scan examines as a pair, from  *)
(* positions and velocities in the plane: the first particle at the origin *)
(* and the second one three units away along an axis or along the          *)
(* direction <<3/5, 4/5>>, or out of reach.                                *)

CollideOne == SystemIndex(2) + 1
CollideTwo == SystemIndex(2) + 2

\* the positions tried for the second particle
SecondPositions ==
    {<<Num(3, 1), 0>>, <<0, Num(3, 1)>>, <<Num(9, 5), Num(12, 5)>>,
     <<Num(5, 1), 0>>}
\* the velocities tried for both
PairVelocities ==
    {<<Num(1, 1), 0>>, <<Num(0 - 1, 1), 0>>, <<0, Num(1, 1)>>,
     <<Num(3, 5), Num(4, 5)>>, <<Num(0 - 3, 5), Num(0 - 4, 5)>>, <<0, 0>>}
\* target, attacking and connected of the first particle: fresh, or left
\* without a target and not yet reconnected
PairModes == {FreshMode, [target |-> Null, attacking |-> TRUE, connected |-> FALSE]}

CollisionInit ==
    /\ \E posTwo \in SecondPositions, velOne \in PairVelocities,
          velTwo \in PairVelocities, teamTwo \in Teams, mode \in PairModes :
          /\ parts =
               [g \in {CollideOne, CollideTwo} |->
                  IF g = CollideOne
                  THEN [Placed(1, 0, g, 1, 0, velOne, mode, 0)
                          EXCEPT !.age = Num(1, 1)]
                  ELSE [Placed(teamTwo, IF teamTwo = 1 THEN 1 ELSE 0, g, 0, 0,
                               velTwo, FreshMode, 0)
                          EXCEPT !.pos = posTwo, !.age = Num(1, 1)]]
          /\ sys = [t \in Teams |->
                      [NewPlayerSystem(Number[t], t) EXCEPT
                          !.particles =
                              IF t = 1
                              THEN (IF teamTwo = 1
                                    THEN (0 :> CollideOne @@ 1 :> CollideTwo)
                                    ELSE (0 :> CollideOne))
                              ELSE (IF teamTwo = 1 THEN Empty
                                    ELSE (0 :> CollideTwo)),
                          !.lastIndex =
                              IF t = 1 THEN (IF teamTwo = 1 THEN 1 ELSE 0)
                              ELSE (IF teamTwo = 1 THEN 0 - 1 ELSE 0),
                          !.age = Num(1, 1)]]
    /\ elements = 0..CollideTwo
    /\ collidables = (0 :> CollideTwo @@ 1 :> CollideOne)
    /\ lastIndex = CollideTwo
    /\ lastCollideIndex = 1
    /\ flashIndex = 1
    /\ logicFrame = MaxTicks - 1
    /\ drawFrame = 0
    /\ player = [t \in Teams |-> NewPlayer(HomeX[t], 0)]
    /\ flashes = Empty
    /\ timers = [t \in Teams |-> 0]
    /\ pc = "idle"
    /\ scan = <<0, 0>>
    /\ cursor = 0
    /\ ran = <<>>
    /\ stepper = NoStepper

CollisionSpec == CollisionInit /\ [][BattleNext]_vars

---------------------------------------------------------------------------
(* The program from its start for as many ticks as two spawns of           *)
(* replenishParticles in one system take, every makeOne callback running   *)
(* before the next call of logicLoop (the callback of addParticles(1) is   *)
(* due at once, the next tick LOGIC_LOOP_TIME later).                      *)

MaxThrottleTicks == 2 * (addTime + 1) + 1

ThrottleNext ==
    \/ \E t \in Teams : MakeOne(t)
    \/ (/\ logicFrame < MaxThrottleTicks
        /\ \A t \in Teams : timers[t] = 0
        /\ StartTick)
    \/ CollidePair
    \/ NoninteractingDoLogic
    \/ \E t \in Teams : PlayerDoLogic(t)
    \/ \E t \in Teams : PlayerSystemDoLogic(t)
    \/ AttackParticleDoLogic

ThrottleSpec == Init /\ [][ThrottleNext]_vars

---------------------------------------------------------------------------
(* The program from its start for one tick more than Spec, the makeOne     *)
(* callbacks running between any two ticks: a particle locks a target in   *)
(* one tick, the target dies in the next and is removed in the third, and  *)
(* its replacement is scanned in the fourth.                               *)

MaxLongTicks == MaxTicks + 1

LongNext ==
    \/ \E t \in Teams : MakeOne(t)
    \/ (logicFrame < MaxLongTicks /\ StartTick)
    \/ CollidePair
    \/ NoninteractingDoLogic
    \/ \E t \in Teams : PlayerDoLogic(t)
    \/ \E t \in Teams : PlayerSystemDoLogic(t)
    \/ AttackParticleDoLogic

LongSpec == Init /\ [][LongNext]_vars

---------------------------------------------------------------------------
(* The key handlers (script.js:424-499) and one logic tick of two players  *)
(* whose particles have all died, from the positions that earlier ticks    *)
(* can have left: inside the canvas, on its edges and one move beyond.     *)

\* the four flags of a Player that the handlers set
DirKeys == {"left", "right", "up", "down"}
SetKey(pl, k, v) ==
    IF k = "left" THEN [pl EXCEPT !.left = v]
    ELSE IF k = "right" THEN [pl EXCEPT !.right = v]
    ELSE IF k = "up" THEN [pl EXCEPT !.up = v]
    ELSE [pl EXCEPT !.down = v]

\* the keydown handler, for the key that is direction k of player t
KeyDown(t, k) ==
    /\ pc = "idle"
    /\ logicFrame < MaxTicks
    /\ player' = [player EXCEPT ![t] = SetKey(@, k, TRUE)]
    /\ UNCHANGED <<parts, elements, collidables, lastIndex, lastCollideIndex,
                   logicFrame, drawFrame, sys, flashes, flashIndex, timers,
                   pc, scan, cursor, ran, stepper>>

\* the keyup handler
KeyUp(t, k) ==
    /\ pc = "idle"
    /\ logicFrame < MaxTicks
    /\ player' = [player EXCEPT ![t] = SetKey(@, k, FALSE)]
    /\ UNCHANGED <<parts, elements, collidables, lastIndex, lastCollideIndex,
                   logicFrame, drawFrame, sys, flashes, flashIndex, timers,
                   pc, scan, cursor, ran, stepper>>

\* the coordinates tried for player one
ControlX == {0 - 1, 0, HomeX[1], GameWidth, GameWidth + 1}
ControlY == {0 - 1, 0, GameHeight, GameHeight + 1}

ControlInit ==
    /\ parts = Empty
    /\ elements = {NoninteractingIndex} \cup
                  {PlayerIndex(t) : t \in Teams} \cup
                  {SystemIndex(t) : t \in Teams}
    /\ collidables = Empty
    /\ lastIndex = SystemIndex(2)
    /\ lastCollideIndex = 0 - 1
    /\ logicFrame = MaxTicks - 1
    /\ drawFrame = 0
    /\ sys = [t \in Teams |-> NewPlayerSystem(Number[t], t)]
    /\ \E x \in ControlX, y \in ControlY :
          player = [t \in Teams |->
                      IF t = 1 THEN NewPlayer(x, y) ELSE NewPlayer(HomeX[t], 0)]
    /\ flashes = Empty
    /\ flashIndex = 0 - 1
    /\ timers = [t \in Teams |-> 0]
    /\ pc = "idle"
    /\ scan = <<0, 0>>
    /\ cursor = 0
    /\ ran = <<>>
    /\ stepper = NoStepper

ControlNext ==
    \/ \E t \in Teams, k \in DirKeys : KeyDown(t, k)
    \/ \E t \in Teams, k \in DirKeys : KeyUp(t, k)
    \/ Cleanup
    \/ NoninteractingDoLogic
    \/ \E t \in Teams : PlayerDoLogic(t)
    \/ \E t \in Teams : PlayerSystemDoLogic(t)

ControlSpec == ControlInit /\ [][ControlNext]_vars

---------------------------------------------------------------------------
(* Properties *)

\* the AttackParticles in game.elements, and those of team t
Present == {k \in elements : IsParticleIndex(k)}
Constructed(t) == {g \in DOMAIN parts : parts[g].team = t}
Population(t) == Cardinality(DOMAIN sys[t].particles)
\* a logic tick has just ended
AfterTick == pc = "idle" /\ logicFrame > 0
\* the places in this tick's log of the integration step of team t's system
\* and of the target acquisitions of team t's particles
Integrations(t) == {i \in 1..Len(ran) : ran[i] = <<"doLogic", SystemIndex(t)>>}
Acquisitions(t) ==
    {i \in 1..Len(ran) : /\ ran[i][1] = "doLogic"
                         /\ IsParticleIndex(ran[i][2])
                         /\ parts[ran[i][2]].team = t}
Places(kind) == {i \in 1..Len(ran) : ran[i][1] = kind}

C2_TargetsAliveAfterTick ==
    AfterTick =>
        \A g \in Present :
            parts[g].target # Null =>
                /\ parts[parts[g].target].lives > 0
                /\ parts[g].target \in elements
                /\ parts[parts[g].target].team # parts[g].team

\* C3: no system ever holds more particles than its cap maxParticles.
C3_PopulationCap == \A t \in Teams : Population(t) <= sys[t].maxParticles

\* C4: no step increases the lives of a particle.
C4_LivesNeverIncrease ==
    [][\A g \in DOMAIN parts : parts'[g].lives <= parts[g].lives]_vars

\* a particle has lost a life
C4_Witness == \E g \in DOMAIN parts : parts[g].lives < STARTING_LIVES

\* the pair examined by the scan is closer than the sum of its radii plus
\* COLLISION_EPSILON
PairOverlaps ==
    Lt(VDistanceTo(parts[ScanOne].pos, parts[ScanTwo].pos),
       Add(Add(parts[ScanOne].radius, parts[ScanTwo].radius), COLLISION_EPSILON))

\* C5: the scan's step for a pair takes exactly one life from both particles
\* when they overlap and are of different teams, and changes no lives
\* otherwise; the lives of the other particles do not change.
C5_PairDamage ==
    [][pc = "collide" =>
        LET d == IF PairOverlaps /\ parts[ScanOne].team # parts[ScanTwo].team
                 THEN 1 ELSE 0
        IN  /\ parts'[ScanOne].lives = parts[ScanOne].lives - d
            /\ parts'[ScanTwo].lives = parts[ScanTwo].lives - d
            /\ \A g \in DOMAIN parts \ {ScanOne, ScanTwo} :
                   parts'[g].lives = parts[g].lives]_vars

\* two particles of different teams that the scan of this tick found
\* overlapping, each one life down
C5_Witness ==
    /\ pc = "logic"
    /\ \E g, h \in Present :
        /\ parts[g].team # parts[h].team
        /\ parts[g].lives = STARTING_LIVES - 1
        /\ parts[h].lives = STARTING_LIVES - 1
        /\ \E i \in 1..Len(parts[g].distances) :
            /\ parts[g].distances[i][1] = parts[h].collideIndex
            /\ Lt(parts[g].distances[i][2],
                  Add(Add(parts[g].radius, parts[h].radius), COLLISION_EPSILON))

\* C6: resolving the collision of two overlapping particles whose combined
\* velocity is zero leaves the positions and the velocities of both finite.
C6_ZeroVelocityFinite ==
    [][(/\ pc = "collide"
        /\ PairOverlaps
        /\ VLength(VAdd(parts[ScanOne].vel, parts[ScanTwo].vel)) = 0)
       => \A g \in {ScanOne, ScanTwo} :
              VFinite(parts'[g].pos) /\ VFinite(parts'[g].vel)]_vars

\* C7: when a system takes its integration step, a particle whose target has
\* been removed from the game gets no acceleration toward that target.
C7_NoAttackOnRemovedTarget ==
    \A t \in Teams :
        (pc = "logic" /\ cursor = SystemIndex(t)) =>
            \A k \in DOMAIN sys[t].particles :
                LET p == parts[sys[t].particles[k]]
                IN  (p.target # Null /\ p.target \notin elements) =>
                        AttackAccel(p, GetState(sys, t)[k]) = <<0, 0>>

\* C8: in each system the mapping holds every particle under its own key,
\* no two particles ever constructed for the system have the same key, and
\* the keys assigned so far are exactly 0 .. lastIndex.
C8_KeysUnique ==
    \A t \in Teams :
        /\ \A k \in DOMAIN sys[t].particles :
              /\ sys[t].particles[k] \in Constructed(t)
              /\ parts[sys[t].particles[k]].key = k
        /\ \A g, h \in Constructed(t) : parts[g].key = parts[h].key => g = h
        /\ {parts[g].key : g \in Constructed(t)} = 0..sys[t].lastIndex

\* a particle of a system was removed and a later one holds a later key
C8_Witness ==
    \E t \in Teams : \E g, h \in Constructed(t) :
        /\ g \notin elements
        /\ h \in elements
        /\ parts[h].key > parts[g].key
        /\ h > g

\* C9: replenishParticles, run by the system's doLogic: below addTime the
\* counter goes up by one and nothing is scheduled; at addTime and below the
\* cap one spawn is scheduled and the counter is reset; at addTime and at or
\* above the cap nothing is scheduled.
C9_Replenish ==
    [][\A t \in Teams :
        (pc = "logic" /\ cursor = SystemIndex(t)) =>
            /\ DOMAIN sys'[t].particles = DOMAIN sys[t].particles
            /\ sys[t].addCounter < addTime =>
                  /\ sys'[t].addCounter = sys[t].addCounter + 1
                  /\ timers'[t] = timers[t]
            /\ (sys[t].addCounter = addTime /\ Population(t) < sys[t].maxParticles) =>
                  /\ sys'[t].addCounter = 0
                  /\ timers'[t] = timers[t] + 1
            /\ (sys[t].addCounter = addTime /\ Population(t) >= sys[t].maxParticles) =>
                  /\ sys'[t].addCounter = addTime
                  /\ timers'[t] = timers[t]]_vars

\* a replenishment has just scheduled a spawn
C9_Witness ==
    \E t \in Teams :
        /\ Integrations(t) # {}
        /\ sys[t].addCounter = 0
        /\ timers[t] > 0

\* the dead particles in game.elements
Dead == {k \in Present : parts[k].lives <= 0}

\* C10: the cleanup of a tick removes exactly the particles whose lives are
\* <= 0 from game.elements, from game.collidables and from their systems, and
\* adds one flash for each at its position and with its color; no other step
\* removes an element, and a removed particle never comes back.
C10_Cleanup ==
    [][/\ (pc = "idle" /\ pc' # "idle") =>
            /\ elements' = elements \ Dead
            /\ \A k \in Dead :
                  /\ parts[k].collideIndex \notin DOMAIN collidables'
                  /\ parts[k].key \notin DOMAIN sys'[parts[k].team].particles
            /\ \A k \in Present \ Dead :
                  /\ collidables'[parts[k].collideIndex] = k
                  /\ sys'[parts[k].team].particles[parts[k].key] = k
            /\ flashIndex' = flashIndex + Cardinality(Dead)
            /\ DOMAIN flashes' = DOMAIN flashes \cup (flashIndex + 1 .. flashIndex')
            /\ \A i \in 1..Cardinality(Dead) :
                  /\ flashes'[flashIndex + i].pos = parts[Ascending(Dead)[i]].pos
                  /\ flashes'[flashIndex + i].color = parts[Ascending(Dead)[i]].color
       /\ ~(pc = "idle" /\ pc' # "idle") => elements \subseteq elements'
       /\ \A k \in DOMAIN parts : k \notin elements => k \notin elements']_vars

\* a cleanup has removed a particle and left the flash at its position
C10_Witness ==
    \E k \in DOMAIN parts :
        /\ k \notin elements
        /\ \E f \in DOMAIN flashes :
              /\ flashes[f].maxDraws = 20
              /\ flashes[f].pos = parts[k].pos


\* PlayerSystem.prototype.evalDeriv(state) of system t, conn giving the
\* connected flag of every particle before the call and angles its random
\* draw: for every key the derivative and the connected flag afterwards
SystemEvalDeriv(t, state, conn, angles) ==
    [k \in DOMAIN state |->
        ParticleEvalDeriv([parts[sys[t].particles[k]] EXCEPT !.connected = conn[k]],
                          state[k], angles[k])]

\* the two evaluations that trapezoidalStep makes on system t: at the current
\* state and at the Euler trial state
FirstEval(t, angles) ==
    SystemEvalDeriv(t, GetState(sys, t),
                    [k \in DOMAIN sys[t].particles |->
                        parts[sys[t].particles[k]].connected],
                    angles)
FirstDeriv(t, angles) ==
    [k \in DOMAIN sys[t].particles |-> FirstEval(t, angles)[k].deriv]
TrialState(t, angles) ==
    TrapezoidalTrial(GetState(sys, t), FirstDeriv(t, angles), TIME_STEP)
SecondEval(t, angles) ==
    SystemEvalDeriv(t, TrialState(t, angles),
                    [k \in DOMAIN sys[t].particles |->
                        FirstEval(t, angles)[k].connected],
                    angles)
SecondDeriv(t, angles) ==
    [k \in DOMAIN sys[t].particles |-> SecondEval(t, angles)[k].deriv]

\* the trapezoidal rule: old + (deriv + derivNext) * dt / 2 in every component
HalfSum(a, b, timeStep) == Mul(Mul(Add(a, b), timeStep), Num(1, 2))
VHalfSum(a, b, timeStep) ==
    <<HalfSum(a[1], b[1], timeStep), HalfSum(a[2], b[2], timeStep)>>
TrapezoidalRule(currentState, deriv, nextDeriv, timeStep) ==
    [k \in DOMAIN currentState |->
        <<VAdd(currentState[k][1], VHalfSum(deriv[k][1], nextDeriv[k][1], timeStep)),
          VAdd(currentState[k][2], VHalfSum(deriv[k][2], nextDeriv[k][2], timeStep)),
          Add(currentState[k][3], HalfSum(deriv[k][3], nextDeriv[k][3], timeStep)),
          Add(currentState[k][4], HalfSum(deriv[k][4], nextDeriv[k][4], timeStep))>>]

\* the state of system t after the step, in the shape of getState
StateAfter(t) ==
    [k \in DOMAIN sys[t].particles |->
        <<parts'[sys[t].particles[k]].pos, parts'[sys[t].particles[k]].vel,
          parts'[sys[t].particles[k]].age, parts'[sys[t].particles[k]].attackDelay>>]

\* C11: the trapezoidalStep that a system's doLogic runs sets every component
\* of every key's state to old + (deriv + derivNext) * dt / 2, deriv being the
\* derivative at the state before the step and derivNext the derivative at
\* the Euler trial state.
C11_TrapezoidalRule ==
    [][\A t \in Teams :
        (pc = "logic" /\ cursor = SystemIndex(t)) =>
            \E angles \in [DOMAIN sys[t].particles -> ThrustAngles] :
                StateAfter(t) =
                    TrapezoidalRule(GetState(sys, t), FirstDeriv(t, angles),
                                    SecondDeriv(t, angles), TIME_STEP)]_vars


\* C12: eulerStep calls evalDeriv once and sets every component of every
\* key's state, attackDelay included, to old + deriv * dt.
C12_EulerRule ==
    stepper.euler.ran =>
        /\ stepper.euler.evalCalls = 1
        /\ \A k \in DOMAIN stepper.state :
              stepper.euler.state[k] =
                  <<VAdd(stepper.state[k][1],
                         VMultiplyScalar(stepper.deriv[1], stepper.timeStep)),
                    VAdd(stepper.state[k][2],
                         VMultiplyScalar(stepper.deriv[2], stepper.timeStep)),
                    Add(stepper.state[k][3], Mul(stepper.deriv[3], stepper.timeStep)),
                    Add(stepper.state[k][4], Mul(stepper.deriv[4], stepper.timeStep))>>

\* C13: on a system with a constant derivative, trapezoidalStep and eulerStep
\* of the same size from the same state end in the same state.
C13_TrapezoidalIsEuler ==
    (stepper.euler.ran /\ stepper.trapezoidal.ran) =>
        stepper.trapezoidal.state = stepper.euler.state


\* the doLogic of an AttackParticle is the next step of the logic loop
AtParticleDoLogic == pc = "logic" /\ IsParticleIndex(cursor)
\* the particle's enemies that are alive
LiveEnemy(p, g) == parts[g].team # p.team /\ parts[g].lives > 0

\* C14: a particle whose target is alive when its doLogic starts has the same
\* target when doLogic returns.
C14_TargetRetained ==
    [][AtParticleDoLogic =>
        LET p == parts[cursor]
        IN  (p.target # Null /\ parts[p.target].lives > 0) =>
                parts'[cursor].target = p.target]_vars


\* the entries of p's recorded distances that name a live enemy nearer than
\* ATTACK_DISTANCE, and the gameIndex that entry i names
Recorded(p, i) == collidables[p.distances[i][1]]
InRangeEntries(p) ==
    {i \in 1..Len(p.distances) :
        /\ LiveEnemy(p, Recorded(p, i))
        /\ Lt(p.distances[i][2], Num(ATTACK_DISTANCE, 1))}
\* the target of p is null or dead
NoLiveTarget(p) == p.target = Null \/ parts[p.target].lives <= 0
\* the steps that have run in this tick
Ran == {ran[i] : i \in 1..Len(ran)}

\* C15: doLogic on a particle that is not attacking and has no live target:
\* if a live enemy is recorded nearer than ATTACK_DISTANCE, the particle
\* locks onto the nearest of them (attacking = true, connected = false);
\* otherwise its target does not change.
C15_LockNearest ==
    [][AtParticleDoLogic =>
        LET p == parts[cursor]
            q == parts'[cursor]
        IN  (~p.attacking /\ NoLiveTarget(p)) =>
                IF InRangeEntries(p) # {}
                THEN /\ \E i \in InRangeEntries(p) :
                          /\ q.target = Recorded(p, i)
                          /\ \A j \in InRangeEntries(p) :
                                ~Lt(p.distances[j][2], p.distances[i][2])
                     /\ q.attacking
                     /\ ~q.connected
                ELSE q.target = p.target]_vars

\* a particle in its first tick (age 2 * TIME_STEP after the integration)
\* whose doLogic has locked a live enemy
C15_Witness ==
    \E g \in Present :
        /\ parts[g].age = Mul(Num(2, 1), TIME_STEP)
        /\ <<"doLogic", g>> \in Ran
        /\ parts[g].target \in Present
        /\ LiveEnemy(parts[g], parts[g].target)
        /\ parts[g].attacking
        /\ ~parts[g].connected


\* the first entry of p's ascending distance list that names a particle of
\* the other team, 0 when there is none
EnemyEntries(p) ==
    {i \in 1..Len(p.distances) :
        parts[collidables[SortDistances(p.distances)[i][1]]].team # p.team}
FirstEnemyEntry(p) ==
    IF EnemyEntries(p) = {} THEN 0
    ELSE CHOOSE i \in EnemyEntries(p) : \A j \in EnemyEntries(p) : i <= j
FirstEnemy(p) == collidables[SortDistances(p.distances)[FirstEnemyEntry(p)][1]]
FirstEnemyDist(p) == SortDistances(p.distances)[FirstEnemyEntry(p)][2]
HomeDist(p) == VDistanceTo(player[p.team].pos, p.pos)
\* doLogic runs on an attacking particle without a live target whose first
\* enemy is alive and attacking
AttackerMeetsAttacker(p) ==
    /\ p.attacking
    /\ NoLiveTarget(p)
    /\ FirstEnemyEntry(p) # 0
    /\ parts[FirstEnemy(p)].lives > 0
    /\ parts[FirstEnemy(p)].attacking
\* the particle q is locked onto the particle g
LockedOn(q, g) == q.target = g /\ q.attacking /\ ~q.connected

\* C16, as claimed: an attacking particle without a live target whose first
\* enemy in the ascending distance list is alive and attacking locks onto
\* that enemy whatever the distance, also where it would disengage.
C16_LockBeforeDisengage ==
    [][AtParticleDoLogic =>
        (AttackerMeetsAttacker(parts[cursor]) =>
            LockedOn(parts'[cursor], FirstEnemy(parts[cursor])))]_vars

\* C16, amended: such a particle locks onto that enemy whatever the distance,
\* unless the distance is above ATTACK_DISTANCE and the particle is nearer to
\* its home than to the enemy: then it disengages and its target is unchanged.
C16_LockOnAttacker ==
    [][AtParticleDoLogic =>
        LET p == parts[cursor]
            q == parts'[cursor]
        IN  AttackerMeetsAttacker(p) =>
                IF Gt(FirstEnemyDist(p), Num(ATTACK_DISTANCE, 1))
                   /\ Lt(HomeDist(p), FirstEnemyDist(p))
                THEN ~q.attacking /\ q.connected /\ q.target = p.target
                ELSE LockedOn(q, FirstEnemy(p))]_vars

\* a particle that had no target in this tick's integration (attackDelay 1)
\* is locked onto a live enemy recorded beyond ATTACK_DISTANCE
C16_Witness ==
    \E g \in Present :
        /\ <<"doLogic", g>> \in Ran
        /\ parts[g].attackDelay = Num(1, 1)
        /\ parts[g].target \in Present
        /\ LockedOn(parts[g], parts[g].target)
        /\ \E i \in 1..Len(parts[g].distances) :
              /\ Recorded(parts[g], i) = parts[g].target
              /\ Gt(parts[g].distances[i][2], Num(ATTACK_DISTANCE, 1))


\* entry i of p's ascending distance list: the particle it names and the
\* distance
SortedEnemy(p, i) == parts[collidables[SortDistances(p.distances)[i][1]]]
SortedDist(p, i) == SortDistances(p.distances)[i][2]
\* the particle has left the fight: attacking = false, connected = true
Disengaged(q) == ~q.attacking /\ q.connected
\* doLogic can be seen to disengage p: p is not disengaged before it
Engaged(p) == p.attacking \/ ~p.connected

\* C17, as claimed: the scan disengages the particle exactly when no enemy is
\* recorded within ATTACK_DISTANCE and the particle's distance from its home
\* is greater than its distance to the nearest enemy.
FarFromHome(p) ==
    /\ EnemyEntries(p) # {}
    /\ \A i \in EnemyEntries(p) :
          ~Lt(SortedDist(p, i), Num(ATTACK_DISTANCE, 1))
    /\ Gt(HomeDist(p), FirstEnemyDist(p))
C17_DisengageFarFromHome ==
    [][AtParticleDoLogic =>
        /\ FarFromHome(parts[cursor]) => Disengaged(parts'[cursor])
        /\ (Engaged(parts[cursor]) /\ ~FarFromHome(parts[cursor]))
              => ~Disengaged(parts'[cursor])]_vars

\* C17, amended: the scan disengages the particle exactly when an enemy is
\* recorded at a distance that is greater than ATTACK_DISTANCE and greater
\* than the particle's distance from its home, and no nearer recorded enemy
\* is locked first (a live enemy within ATTACK_DISTANCE or, for an attacking
\* particle, a live attacking enemy).
LockedFirst(p, j) ==
    /\ SortedEnemy(p, j).lives > 0
    /\ \/ p.attacking /\ SortedEnemy(p, j).attacking
       \/ Lt(SortedDist(p, j), Num(ATTACK_DISTANCE, 1))
NearHome(p) ==
    \E i \in EnemyEntries(p) :
        /\ Gt(SortedDist(p, i), Num(ATTACK_DISTANCE, 1))
        /\ Lt(HomeDist(p), SortedDist(p, i))
        /\ \A j \in EnemyEntries(p) : j < i => ~LockedFirst(p, j)
C17_Disengage ==
    [][AtParticleDoLogic =>
        /\ NearHome(parts[cursor]) => Disengaged(parts'[cursor])
        /\ (Engaged(parts[cursor]) /\ ~NearHome(parts[cursor]))
              => ~Disengaged(parts'[cursor])]_vars

\* a particle that went through this tick's integration with a target and
\* attackDelay 0 (so it was locked) is disengaged, an enemy being recorded
\* beyond ATTACK_DISTANCE
C17_Witness ==
    \E g \in Present :
        /\ <<"doLogic", g>> \in Ran
        /\ Disengaged(parts[g])
        /\ parts[g].target = Null
        /\ parts[g].attackDelay = Num(2, 1)
        /\ \E i \in 1..Len(parts[g].distances) :
              /\ parts[Recorded(parts[g], i)].team # parts[g].team
              /\ Gt(parts[g].distances[i][2], Num(ATTACK_DISTANCE, 1))


\* the integration of system t is the next step of the logic loop
AtSystemDoLogic(t) == pc = "logic" /\ cursor = SystemIndex(t)
\* the particles that the integration of system t moves
Integrated(t) == {sys[t].particles[k] : k \in DOMAIN sys[t].particles}

\* C18: attackDelay counts the logic ticks since the particle acquired its
\* target: an integration step leaves the attackDelay of a particle without
\* a target where it was and advances that of a particle with a target by
\* one tick.
C18_DelayCountsTicksWithTarget ==
    [][\A t \in Teams : AtSystemDoLogic(t) =>
        \A g \in Integrated(t) :
            parts'[g].attackDelay =
                IF parts[g].target = Null
                THEN parts[g].attackDelay
                ELSE Add(parts[g].attackDelay, Num(1, 1))]_vars


\* the entry of getState for particle g
StateOf(g) == <<parts[g].pos, parts[g].vel, parts[g].age, parts[g].attackDelay>>
\* evalDeriv's acceleration when no branch of the chain adds to it: the
\* damping, bounded by MAX_SPEED
Damping(p, state) ==
    LET dist == VDistanceTo(player[p.team].pos, state[1])
        damp == VSetLength(state[2],
                    Div(Mul(Mul(Mul(Num(0 - 1, 1), damping), VLength(state[2])), dist),
                        Mul(Num(maxParticleVel, 1), Num(maxDist, 1))))
    IN  IF Gt(VLength(damp), Num(MAX_SPEED, 1))
        THEN VSetLength(damp, Num(MAX_SPEED, 1)) ELSE damp
\* the velocity that trapezoidalStep gives a particle in this state whose
\* first evalDeriv returned the acceleration accel
VelAfter(state, accel, delayIncr) ==
    LET cs == 0 :> state
        d == 0 :> <<state[2], accel, Num(1, 1), delayIncr>>
    IN  TrapezoidalFinal(TrapezoidalTrial(cs, d, TIME_STEP), d, d, TIME_STEP)[0][2]
\* particle g has a target and an attackDelay that is not above ATTACK_DELAY
WaitingForDelay(g) ==
    parts[g].target # Null /\ ~Gt(parts[g].attackDelay, Num(ATTACK_DELAY, 1))
\* what evalDeriv returns for particle g if its target is set aside
WithoutTarget(g, angle) ==
    ParticleEvalDeriv([parts[g] EXCEPT !.target = Null], StateOf(g), angle)

\* C19 as stated: a particle with a target whose attackDelay is not above
\* ATTACK_DELAY is integrated like a particle without a target: thruster and
\* correction if connected, the reconnect check if not.
C19_FallsThroughToNoTargetModes ==
    [][\A t \in Teams : AtSystemDoLogic(t) =>
        \A g \in Integrated(t) : WaitingForDelay(g) =>
            \E angle \in ThrustAngles :
                /\ parts'[g].vel =
                      VelAfter(StateOf(g), WithoutTarget(g, angle).deriv[2], 0)
                /\ WithoutTarget(g, angle).connected => parts'[g].connected]_vars

\* C19, amended: a particle with a target whose attackDelay is not above
\* ATTACK_DELAY gets no attack thrust, no thruster or correction and no
\* reconnect check: its acceleration is the damping alone and its connected
\* flag stays as it was.
C19_NoThrustBeforeDelay ==
    [][\A t \in Teams : AtSystemDoLogic(t) =>
        \A g \in Integrated(t) : WaitingForDelay(g) =>
            /\ parts'[g].vel =
                  VelAfter(StateOf(g), Damping(parts[g], StateOf(g)), Num(1, 1))
            /\ parts'[g].connected = parts[g].connected]_vars

\* a connected and a disconnected particle with a target have been
\* integrated before their attackDelay was above ATTACK_DELAY
C19_Witness ==
    /\ pc = "logic"
    /\ \E g \in Present :
         /\ cursor = SystemIndex(parts[g].team) + 1
         /\ <<"doLogic", SystemIndex(parts[g].team)>> \in Ran
         /\ parts[g].target # Null
         /\ ~Gt(parts[g].attackDelay, Num(ATTACK_DELAY, 1))
         /\ parts[g].connected
         /\ parts[g].vel # <<0, 0>>


\* particle g has no target, is disconnected and is nearer than CONNECT_DIST
\* to its home
Reconnects(g) ==
    /\ parts[g].target = Null
    /\ ~parts[g].connected
    /\ Lt(VDistanceTo(player[parts[g].team].pos, parts[g].pos),
          Num(CONNECT_DIST, 1))

\* C20: a particle with no target, connected = false and nearer than
\* CONNECT_DIST to its home is connected after one integration step of its
\* system, and the velocity that step gives it is the one that the damping
\* alone produces.
C20_ReconnectWithDampingOnly ==
    [][\A t \in Teams : AtSystemDoLogic(t) =>
        \A g \in Integrated(t) : Reconnects(g) =>
            /\ parts'[g].connected
            /\ parts'[g].vel =
                  VelAfter(StateOf(g), Damping(parts[g], StateOf(g)), 0)]_vars

\* a moving particle without a target has been integrated and is connected
\* while still attacking, and its velocity has not grown: it was not
\* propelled in this tick (the thrusters point along the positive x axis)
C20_Witness ==
    /\ pc = "logic"
    /\ \E g \in Present :
         /\ cursor = SystemIndex(parts[g].team) + 1
         /\ <<"doLogic", SystemIndex(parts[g].team)>> \in Ran
         /\ parts[g].target = Null
         /\ parts[g].attacking
         /\ parts[g].connected
         /\ parts[g].vel[1] > 0
         /\ parts[g].vel[1] <= Num(1, 2)
         /\ parts[g].lives > 0


\* a step of drawLoop
RenderTick == drawFrame' # drawFrame
\* the home position of system t: the vector it shares with its Player
HomePos(t) == player[t].pos
\* what the isDead of a flash reads (noninteracting.js:274-276)
FlashLife(f) == <<f.draws, f.maxDraws>>

\* C21 as stated: a render tick changes no particle, no system, no home
\* position and no membership of game.elements and game.collidables, and
\* nothing that a logic tick reads to decide a removal: the lives of the
\* particles and the draws of the flashes.
C21_RenderChangesNothingRead ==
    [][RenderTick =>
        /\ parts' = parts /\ sys' = sys
        /\ elements' = elements /\ collidables' = collidables
        /\ \A t \in Teams : HomePos(t)' = HomePos(t)
        /\ \A k \in DOMAIN flashes :
              FlashLife(flashes'[k]) = FlashLife(flashes[k])]_vars

\* C21, amended: a render tick changes no particle, no system, no home
\* position and no membership of game.elements, game.collidables and the
\* flashes; it advances the draws of every flash, which the next logic tick
\* reads to remove the flash.
C21_RenderKeepsSimulation ==
    [][RenderTick =>
        /\ parts' = parts /\ sys' = sys
        /\ elements' = elements /\ collidables' = collidables
        /\ \A t \in Teams : HomePos(t)' = HomePos(t)
        /\ DOMAIN flashes' = DOMAIN flashes
        /\ \A k \in DOMAIN flashes :
              /\ flashes'[k].draws > flashes[k].draws
              /\ FlashIsDead(flashes[k]) => FlashIsDead(flashes'[k])]_vars

\* render ticks have run with particles in the game, and a logic tick has
\* then removed a flash that they had aged
C21_Witness ==
    /\ drawFrame > 0
    /\ Present # {}
    /\ logicFrame > 0
    /\ \E k \in 0..flashIndex : k \notin DOMAIN flashes
    /\ \E k \in DOMAIN flashes : flashes[k].draws > 0


\* C22: in every reachable state the lives of every particle is a natural
\* number: no collision scan takes it below 0.
C22_LivesNonNegative ==
    \A g \in DOMAIN parts : parts[g].lives \in Nat


\* a makeOne callback of system t runs
SpawnStep(t) == timers'[t] < timers[t]
\* the makeOne callbacks that the calls of addParticles on system t have
\* scheduled so far: those that have run and those pending
Scheduled(t) == Cardinality(Constructed(t)) + timers[t]
\* the keys given to the particles of system t so far
KeysGiven(t) == {parts[g].key : g \in Constructed(t)}

AtPlayerDoLogic(t) == pc = "logic" /\ cursor = PlayerIndex(t)
\* the net directional intent of a player, a key counting only while the
\* canvas edge does not block it (script.js:203-214)
Intent(pl) ==
    <<(IF pl.right /\ pl.pos[1] <= Num(GameWidth, 1) THEN 1 ELSE 0)
        - (IF pl.left /\ pl.pos[1] >= 0 THEN 1 ELSE 0),
      (IF pl.down /\ pl.pos[2] <= Num(GameHeight, 1) THEN 1 ELSE 0)
        - (IF pl.up /\ pl.pos[2] >= 0 THEN 1 ELSE 0)>>
\* a displacement of magnitude PLAYER_VEL in the direction of the intent
Displacement(pl) ==
    VSetLength(<<Num(Intent(pl)[1], 1), Num(Intent(pl)[2], 1)>>, PLAYER_VEL)

\* C24: the doLogic of a player moves the home position of its system by a
\* displacement of magnitude PLAYER_VEL in the direction of the net intent,
\* and leaves it where it is when the net intent is zero.
C24_HomeMovesByPlayerVel ==
    [][\A t \in Teams : AtPlayerDoLogic(t) =>
        HomePos(t)' =
            IF Intent(player[t]) = <<0, 0>> THEN HomePos(t)
            ELSE VAdd(HomePos(t), Displacement(player[t]))]_vars


\* the collision scan of this tick is over
ScanDone == pc = "logic"
\* the pairs the scan of this tick has examined
PairsExamined == Cardinality({i \in 1..Len(ran) : ran[i] = <<"collide", 0>>})
\* the distances list of the collidable with collideIndex c
DistancesOf(c) == parts[collidables[c]].distances

\* C25: after the collision scan over n collidables the scan has examined
\* n (n - 1) / 2 pairs, and the distances list of every collidable has
\* n - 1 entries, one per other collidable, named by its collideIndex; the
\* entry that the other collidable holds for it carries the same distance.
C25_ScanRecordsEveryPair ==
    ScanDone =>
        LET C == DOMAIN collidables
            n == Cardinality(C)
        IN  /\ 2 * PairsExamined = n * (n - 1)
            /\ \A c \in C :
                  /\ Len(DistancesOf(c)) = n - 1
                  /\ {DistancesOf(c)[i][1] : i \in 1..(n - 1)} = C \ {c}
                  /\ \A i \in 1..(n - 1) :
                        \E j \in 1..(n - 1) :
                            DistancesOf(DistancesOf(c)[i][1])[j] =
                                <<c, DistancesOf(c)[i][2]>>

\* the scan of a later tick over three or more collidables is over: the
\* lists held the entries of the tick before
C25_Witness ==
    /\ ScanDone
    /\ logicFrame >= 2
    /\ Cardinality(DOMAIN collidables) >= 3
    /\ PairsExamined >= 3


\* the population of system t is below its cap
BelowCap(t) == Cardinality(DOMAIN sys[t].particles) < sys[t].maxParticles
\* the calls of replenishParticles that can still pass before system t must
\* trigger a spawn
CallsLeft(t) == addTime - sys[t].addCounter
\* a call of replenishParticles on system t triggers a spawn
Triggers(t) == timers'[t] = timers[t] + 1

\* C26: a system whose population stays below the cap triggers a spawn
\* within addTime + 1 logic ticks: at most addTime calls of
\* replenishParticles are left before the call that triggers; a call made
\* below the cap triggers the spawn when none is left and uses one up
\* otherwise.  A spawn that is pending eventually puts a new particle into
\* the system.
C26_ReplenishedWithinAddTime ==
    /\ [](\A t \in Teams : CallsLeft(t) \in 0..addTime)
    /\ [][\A t \in Teams : (AtSystemDoLogic(t) /\ BelowCap(t)) =>
            IF CallsLeft(t) = 0
            THEN Triggers(t) /\ CallsLeft(t)' = addTime
            ELSE timers'[t] = timers[t] /\ CallsLeft(t)' = CallsLeft(t) - 1]_vars
    /\ \A t \in Teams : \A n \in (0 - 1)..(Number[t] + MaxTicks) :
            (timers[t] > 0 /\ sys[t].lastIndex = n) ~> (sys[t].lastIndex > n)

\* a spawn that replenishParticles triggered has put its particle into the
\* system: more particles were constructed than the constructor scheduled
C26_Witness ==
    \E t \in Teams :
        /\ Cardinality(Constructed(t)) > Number[t]
        /\ sys[t].lastIndex \in DOMAIN sys[t].particles
        /\ sys[t].lastIndex >= Number[t]


\* the keys of game.elements that hold the Noninteracting container, the two
\* Players and the two PlayerSystems
FixedElements ==
    {NoninteractingIndex} \cup {PlayerIndex(t) : t \in Teams}
                          \cup {SystemIndex(t) : t \in Teams}
\* the number of times the doLogic of element k has run in this tick
DoLogicRuns(k) == Cardinality({i \in 1..Len(ran) : ran[i] = <<"doLogic", k>>})

\* C27: the Noninteracting container, the two Players and the two
\* PlayerSystems are in game.elements in every state, and after every logic
\* tick the doLogic of each of them has run exactly once in that tick.
C27_FixedElementsStay ==
    /\ FixedElements \subseteq elements
    /\ AfterTick => \A k \in FixedElements : DoLogicRuns(k) = 1

\* the last tick explored is over and the cleanup has removed a particle
C27_Witness ==
    /\ AfterTick
    /\ logicFrame >= 3
    /\ \E g \in DOMAIN parts : g \notin elements

\* the evaluations of evalDeriv that the integration of particle g makes in
\* a system's doLogic: on the particle's state and on the trial state
Evaluated(g, angle) ==
    LET first == ParticleEvalDeriv(parts[g], StateOf(g), angle)
        trial == TrapezoidalTrial([k \in {g} |-> StateOf(g)],
                                  [k \in {g} |-> first.deriv], TIME_STEP)[g]
    IN  {<<parts[g], StateOf(g)>>,
         <<[parts[g] EXCEPT !.connected = first.connected], trial>>}

\* the error, in units of the model, of a vector of length MAX_SPEED made
\* from a unit vector whose coordinates are rounded to one unit
Rounding == MAX_SPEED + 1

\* u and v point the same way: v being of length MAX_SPEED, their cross
\* product is zero up to the rounding of v
SameDirection(u, v) ==
    /\ VFinite(u) /\ VFinite(v)
    /\ u[1] * v[1] + u[2] * v[2] > 0
    /\ Mag(u[1] * v[2] - u[2] * v[1]) <= 2 * Rounding * (Mag(u[1]) + Mag(u[2]))

\* C28: the acceleration that evalDeriv returns never has a length above
\* MAX_SPEED, and when the acceleration before the bound is longer than
\* MAX_SPEED the returned one has length MAX_SPEED and the same direction.
C28_AccelerationBounded ==
    \A t \in Teams : AtSystemDoLogic(t) =>
        \A g \in Integrated(t) : \A angle \in ThrustAngles :
            \A e \in Evaluated(g, angle) :
                LET before == AccelBeforeBound(e[1], e[2], angle)
                    accel == ParticleEvalDeriv(e[1], e[2], angle).deriv[2]
                IN  /\ ~Gt(VLength(accel), Num(MAX_SPEED, 1))
                    /\ Gt(VLength(before), Num(MAX_SPEED, 1)) =>
                        /\ VLength(accel) >= Num(MAX_SPEED, 1) - 2 * Rounding
                        /\ SameDirection(before, accel)

\* the unit vector along the line of the centers of the pair under the scan
\* and the vector across it
PairNormal == VNormalize(VSub(parts[ScanOne].pos, parts[ScanTwo].pos))
Across(n) == <<Neg(n[2]), n[1]>>
\* a and b are the same number up to the rounding of two products
Near(a, b) == a = b \/ (IsFinite(a) /\ IsFinite(b) /\ Mag(a - b) <= 2)
\* the scenario of the specification: two particles of one team with radius
\* 2 at (0,0) and (3,0), moving at (1,0) and (-1,0)
SpecScenario ==
    /\ parts[ScanOne].team = parts[ScanTwo].team
    /\ parts[ScanOne].radius = Num(2, 1) /\ parts[ScanTwo].radius = Num(2, 1)
    /\ parts[ScanOne].pos = <<0, 0>> /\ parts[ScanTwo].pos = <<Num(3, 1), 0>>
    /\ parts[ScanOne].vel = <<Num(1, 1), 0>>
    /\ parts[ScanTwo].vel = <<Num(0 - 1, 1), 0>>

\* C29: resolving the collision of an overlapping pair replaces the velocity
\* v of each of the two by v - 2(v.n)n, n being the unit vector along the
\* line of the centers: the component along n is negated, the component
\* across n and the speed are kept, and reflecting the new velocity again
\* gives v; in the scenario of the specification the x components of the two
\* velocities are negated and no lives are lost.
C29_VelocityReflected ==
    [][(pc = "collide" /\ PairOverlaps) =>
        /\ \A g \in {ScanOne, ScanTwo} :
            LET n == PairNormal
                v == parts[g].vel
                w == parts'[g].vel
            IN  /\ w = VSub(v, VMultiplyScalar(n, Mul(Num(2, 1), VDot(v, n))))
                /\ Near(VDot(w, n), Neg(VDot(v, n)))
                /\ Near(VDot(w, Across(n)), VDot(v, Across(n)))
                /\ Near(VLength(w), VLength(v))
                /\ Near(Reflect(w, n)[1], v[1])
                /\ Near(Reflect(w, n)[2], v[2])
        /\ SpecScenario =>
            /\ parts'[ScanOne].vel = <<Num(0 - 1, 1), 0>>
            /\ parts'[ScanTwo].vel = <<Num(1, 1), 0>>
            /\ parts'[ScanOne].lives = parts[ScanOne].lives
            /\ parts'[ScanTwo].lives = parts[ScanTwo].lives]_vars

\* the scan has resolved the collision of the scenario
C29_Witness ==
    /\ pc = "logic"
    /\ Places("collide") # {}
    /\ parts[CollideOne].team = parts[CollideTwo].team
    /\ parts[CollideOne].lives = STARTING_LIVES
    /\ parts[CollideTwo].lives = STARTING_LIVES
    /\ parts[CollideOne].vel = <<Num(0 - 1, 1), 0>>
    /\ parts[CollideTwo].vel = <<Num(1, 1), 0>>
    /\ ~VFinite(parts[CollideOne].pos) /\ ~VFinite(parts[CollideTwo].pos)

\* the calls of addParticles(1) that the replenishParticles of system t has
\* made so far: the callbacks pending and the particles constructed, less
\* those of the constructor's addParticles(number)
TriggersSoFar(t) == timers[t] + Cardinality(Constructed(t)) - Number[t]
\* the calls of replenishParticles on system t so far: one in every tick
CallsSoFar(t) ==
    IF pc = "idle" THEN logicFrame
    ELSE logicFrame - 1 + DoLogicRuns(SystemIndex(t))

\* C30: a call of replenishParticles triggers a spawn only when addCounter
\* has reached addTime, and sets it back to 0; addCounter rises by one per
\* call at most and only in a call, so that two consecutive spawns of a
\* system are at least addTime + 1 calls apart; after k calls a system has
\* triggered at most k / (addTime + 1) spawns, so that the first one comes
\* with the (addTime + 1)-th call at the earliest; addCounter stays within
\* 0..addTime.
C30_SpawnThrottled ==
    /\ [](\A t \in Teams :
            /\ sys[t].addCounter \in 0..addTime
            /\ TriggersSoFar(t) * (addTime + 1) <= CallsSoFar(t))
    /\ [][\A t \in Teams :
            /\ Triggers(t) =>
                /\ AtSystemDoLogic(t)
                /\ sys[t].addCounter = addTime
                /\ sys'[t].addCounter = 0
            /\ sys'[t].addCounter > sys[t].addCounter =>
                /\ AtSystemDoLogic(t)
                /\ sys'[t].addCounter = sys[t].addCounter + 1]_vars

\* a system has triggered its second spawn with the 2 (addTime + 1)-th call
C30_Witness ==
    \E t \in Teams :
        /\ TriggersSoFar(t) = 2
        /\ CallsSoFar(t) = 2 * (addTime + 1)

\* the cleanup of the tick has just run: the collision scan starts
AtScanStart == pc # "idle" /\ ran = <<<<"cleanup", 0>>>>
\* the particles in game.collidables
Collidable == {collidables[c] : c \in DOMAIN collidables}
\* the ids that the distances of particle g hold
DistanceIds(g) == {parts[g].distances[i][1] : i \in 1..Len(parts[g].distances)}

\* C31: when the collision scan of a tick starts, every particle in
\* game.collidables has lives >= 1; the particles with lives <= 0 at the
\* start of the tick are in neither game.collidables nor game.elements
\* during the tick, and the scan, the distances recorded and the targets
\* acquired in the tick involve only particles that are.
C31_DeadTakeNoPart ==
    /\ [](AtScanStart => \A g \in Collidable : parts[g].lives >= 1)
    /\ [][(pc = "idle" /\ pc' # "idle") =>
            \A g \in DOMAIN parts : parts[g].lives <= 0 =>
                g \notin elements' /\ g \notin Collidable']_vars
    /\ [][pc # "idle" =>
            /\ elements' = elements /\ collidables' = collidables
            /\ \A g \in DOMAIN parts :
                /\ DistanceIds(g)' \ DistanceIds(g) # {} =>
                      /\ pc = "collide" /\ g \in Collidable
                      /\ DistanceIds(g)' \subseteq DOMAIN collidables
                /\ parts'[g].target # parts[g].target =>
                      /\ pc = "logic" /\ cursor = g /\ g \in elements
                      /\ parts'[g].target \in Collidable \cup {Null}]_vars

\* a scan has started after a cleanup that removed a dead particle, with
\* two particles left to examine
C31_Witness ==
    /\ AtScanStart
    /\ \E g \in DOMAIN parts : parts[g].lives <= 0 /\ g \notin elements
    /\ Cardinality(Collidable) >= 2

\* C32: in the collision scan, the check of a pair one of whose particles
\* has lives <= 0 takes no life from the other particle and leaves the
\* position and the velocity of the other particle as they were.
C32_DeadCollideWithNothing ==
    [][pc = "collide" =>
        \A a, b \in {ScanOne, ScanTwo} :
            (a # b /\ parts[a].lives <= 0) =>
                /\ parts'[b].lives = parts[b].lives
                /\ parts'[b].pos = parts[b].pos
                /\ parts'[b].vel = parts[b].vel]_vars

\* C33: a particle whose target is not null has attacking = true and
\* connected = false, in every state.
C33_TargetMeansAttacking ==
    \A g \in Present :
        parts[g].target # Null => parts[g].attacking /\ ~parts[g].connected

\* particle g is in its system under its key, in game.collidables under its
\* collideIndex, in game.elements under its gameIndex
InSystem(g) ==
    /\ parts[g].key \in DOMAIN sys[parts[g].team].particles
    /\ sys[parts[g].team].particles[parts[g].key] = g
InCollidables(g) ==
    /\ parts[g].collideIndex \in DOMAIN collidables
    /\ collidables[parts[g].collideIndex] = g
InElements(g) == parts[g].gameIndex = g /\ g \in elements

\* C34: a particle is in its system's particles under its key exactly when
\* it is in game.collidables under its collideIndex and exactly when it is in
\* game.elements under its gameIndex; no two sprites have the same gameIndex
\* or the same collideIndex and the three registries hold nothing else; a
\* spawn puts the new particle into all three and the cleanup takes a dead
\* one out of all three.
C34_RegistriesAgree ==
    /\ [](/\ \A g \in DOMAIN parts :
                /\ InSystem(g) <=> InCollidables(g)
                /\ InCollidables(g) <=> InElements(g)
                /\ parts[g].gameIndex \notin FixedElements
          /\ \A g, h \in DOMAIN parts :
                (\/ parts[g].gameIndex = parts[h].gameIndex
                 \/ parts[g].collideIndex = parts[h].collideIndex) => g = h
          /\ \A c \in DOMAIN collidables :
                collidables[c] \in DOMAIN parts /\ InCollidables(collidables[c])
          /\ \A t \in Teams : \A k \in DOMAIN sys[t].particles :
                sys[t].particles[k] \in DOMAIN parts /\ InSystem(sys[t].particles[k])
          /\ elements \subseteq FixedElements \cup DOMAIN parts)
    /\ [][/\ \A g \in DOMAIN parts' \ DOMAIN parts :
                InSystem(g)' /\ InCollidables(g)' /\ InElements(g)'
          /\ \A g \in DOMAIN parts :
                (InElements(g) /\ ~InElements(g)') =>
                    /\ parts[g].lives <= 0
                    /\ ~InSystem(g)' /\ ~InCollidables(g)']_vars

\* one particle has been removed from the three registries and a particle
\* spawned later is in all three
C34_Witness ==
    \E g, h \in DOMAIN parts :
        /\ ~InElements(g) /\ ~InCollidables(g) /\ ~InSystem(g)
        /\ InElements(h) /\ InCollidables(h) /\ InSystem(h)
        /\ h > g

\* C35: when the doLogic of a particle runs, its distances list is defined
\* and holds the entries of this tick only, one for every other particle in
\* game.collidables, so that every id in it is a key of game.collidables;
\* this is so for a particle spawned between two ticks as well.
C35_DistancesResolve ==
    (pc = "logic" /\ IsParticleIndex(cursor)) =>
        /\ parts[cursor].hasDistances
        /\ DistanceIds(cursor) \subseteq DOMAIN collidables
        /\ \A c \in DistanceIds(cursor) : collidables[c] \in elements
        /\ DistanceIds(cursor) = DOMAIN collidables \ {parts[cursor].collideIndex}
        /\ Len(parts[cursor].distances) = Cardinality(DOMAIN collidables) - 1

\* the doLogic of a particle is about to run whose list names a particle
\* that has been integrated more often: it was spawned after a tick
C35_Witness ==
    /\ pc = "logic" /\ IsParticleIndex(cursor)
    /\ parts[cursor].hasDistances
    /\ \E h \in Present :
          /\ Gt(parts[h].age, parts[cursor].age)
          /\ parts[h].collideIndex \in DistanceIds(cursor)


\* the particles that have been created so far, in the game or removed
Created == {k \in DOMAIN parts : IsParticleIndex(k) /\ k <= lastIndex}

\* C36: in every reachable state the target of a particle is not the particle
\* itself and not a particle of its own team.
C36_TargetIsEnemy ==
    \A g \in Created :
        parts[g].target # Null =>
            /\ parts[g].target # g
            /\ parts[g].target \in Created
            /\ parts[parts[g].target].team # parts[g].team

\* a particle holds a target although the doLogic that locked it had a
\* particle of its own team recorded nearer than that target
C36_Witness ==
    \E g \in Present :
        /\ parts[g].target # Null
        /\ \E i, j \in 1..Len(parts[g].distances) :
              /\ i < j
              /\ collidables[parts[g].distances[i][1]] # parts[g].target
              /\ parts[collidables[parts[g].distances[i][1]]].team = parts[g].team
              /\ collidables[parts[g].distances[j][1]] = parts[g].target


---------------------------------------------------------------------------
(* The life of a flash (noninteracting.js:200-208, 257-276, 297-315) *)

\* a logic tick is left to explore and can start
LogicLoopDue == pc = "idle" /\ NoSpawnDue /\ logicFrame < MaxFlashTicks

\* the flash program under the scheduling of the page: both interval
\* callbacks keep being called while ticks are left to explore (a logic
\* tick that is due does not stay due for ever), a callback handed to
\* window.setTimeout is delivered (between two ticks a spawn does not stay
\* due for ever), and a logic tick that has started runs to its end
FlashLiveSpec ==
    /\ FlashSpec
    /\ WF_vars(FlashDrawLoop)
    /\ []<>(NoSpawnDue \/ pc # "idle")
    /\ []<>(~LogicLoopDue)
    /\ []<>(pc = "idle")

\* the keys the flashes of the explored ticks can get
FlashKeys == 0..(Number[1] + Number[2] + MaxFlashTicks)
\* flash k is in the container
InContainer(k) == k \in DOMAIN flashes
\* flash k is in the container and has been drawn maxDraws times
DrawnOut(k) == InContainer(k) /\ flashes[k].draws >= flashes[k].maxDraws
\* the render ticks that are left suffice to draw flash k maxDraws times
CanBeDrawnOut(k) ==
    /\ InContainer(k)
    /\ drawFrame + (flashes[k].maxDraws - flashes[k].draws) <= MaxFlashDraws
\* the step is Noninteracting.prototype.doLogic
AtNoninteractingDoLogic == pc = "logic" /\ cursor = NoninteractingIndex

\* C37: a Flash has maxDraws 20 and a FastFlash 5, and draws counts the render
\* ticks in which the flash was drawn.  A flash leaves the container only in
\* Noninteracting.doLogic and only after maxDraws draws, and
\* Noninteracting.doLogic removes every flash that has been drawn maxDraws
\* times.  As long as no render tick has run, every flash added is still in
\* the container.  With both loops running, a flash is drawn maxDraws times
\* and a flash drawn maxDraws times is removed.
C37_FlashLife ==
    /\ [](\A k \in DOMAIN flashes :
            /\ k \in FlashKeys
            /\ flashes[k].maxDraws = (IF flashes[k].radius = 20 THEN 5 ELSE 20)
            /\ flashes[k].draws \in 0..drawFrame)
    /\ [](drawFrame = 0 => DOMAIN flashes = 0..flashIndex)
    /\ [][/\ \A k \in DOMAIN flashes \ DOMAIN flashes' :
                AtNoninteractingDoLogic /\ DrawnOut(k)
          /\ AtNoninteractingDoLogic =>
                \A k \in DOMAIN flashes : DrawnOut(k) => ~InContainer(k)'
          /\ \A k \in DOMAIN flashes \cap DOMAIN flashes' :
                flashes'[k].draws - flashes[k].draws = drawFrame' - drawFrame]_vars
    /\ \A k \in FlashKeys :
          /\ CanBeDrawnOut(k) ~> (DrawnOut(k) \/ ~InContainer(k))
          /\ (DrawnOut(k) /\ logicFrame < MaxFlashTicks) ~> ~InContainer(k)

\* every flash has been removed, the Flash of a particle that died among
\* them: it was drawn 20 times and the logic tick after that removed it
C37_Witness ==
    /\ pc = "idle"
    /\ flashIndex >= Number[1] + Number[2]
    /\ DOMAIN flashes = {}
    /\ \E g \in DOMAIN parts :
          IsParticleIndex(g) /\ g <= lastIndex /\ g \notin elements

===========================================================================
